---- MODULE Spec2Model ----
(***************************************************************************)
(* A model of the mini-govuk search service (the inverted index, its full  *)
(* and incremental refresh passes and the /search handler) and of the      *)
(* router (the route cache and the proxy handlers).                        *)
(*                                                                         *)
(* JavaScript strings are sequences of one-character strings, so that      *)
(* toLowerCase, the tokenizer's regular expressions, includes and          *)
(* startsWith are computed character by character.                         *)
(***************************************************************************)
EXTENDS Integers, Sequences, FiniteSets, TLC

\* ------------------------------------------------------------------------
\* Bounds of the model
\* ------------------------------------------------------------------------

\* Number of documents the content store can hold (their _id is 1..MaxDocs).
MaxDocs == 2

\* The clock (Date.now()) runs from 0 to MaxTime.
MaxTime == 2

\* Number of writes (save, publish) the content store takes after the services start.
MaxWrites == 2

\* Number of refresh passes the search service starts.
MaxPasses == 2

\* Number of the search service's requests to the content store that can be
\* awaiting their answer at the same time.
MaxInFlight == 1

MaxSearches == 1

MaxRefreshes == 2

MaxRequests == 1

Ids == 1..MaxDocs

Null == "null"

\* null where a record could be: no stored document, no request in flight, no Date
NoDoc == [state |-> "absent"]

NoFlight == [fn |-> "none"]

NoDate == [isNull |-> TRUE]

\* new Date() at time t
DateAt(t) == [isNull |-> FALSE, time |-> t]

\* ------------------------------------------------------------------------
\* Strings
\* ------------------------------------------------------------------------

UpperCase == <<"A", "B", "C", "D", "E", "F", "G", "H", "I", "J", "K", "L", "M",
               "N", "O", "P", "Q", "R", "S", "T", "U", "V", "W", "X", "Y", "Z">>

LowerCase == <<"a", "b", "c", "d", "e", "f", "g", "h", "i", "j", "k", "l", "m",
               "n", "o", "p", "q", "r", "s", "t", "u", "v", "w", "x", "y", "z">>

Digits == {"0", "1", "2", "3", "4", "5", "6", "7", "8", "9"}

\* \w of a JavaScript regular expression
WordChars == {UpperCase[i] : i \in 1..26} \cup {LowerCase[i] : i \in 1..26}
                \cup Digits \cup {"_"}

\* \s of a JavaScript regular expression (the members the model's texts use)
SpaceChars == {" ", "\t", "\n"}

LowerChar(c) ==
    IF \E i \in 1..26 : UpperCase[i] = c
    THEN LowerCase[CHOOSE i \in 1..26 : UpperCase[i] = c]
    ELSE c

\* String.prototype.toLowerCase
toLowerCase(s) == [i \in 1..Len(s) |-> LowerChar(s[i])]

\* s.replace(/[^\w\s]/g, ' ')
replaceNonWord(s) ==
    [i \in 1..Len(s) |-> IF s[i] \in WordChars \cup SpaceChars THEN s[i] ELSE " "]

\* s.split(/\s+/): the pieces between maximal runs of white space; a string
\* that starts or ends with white space yields an empty first or last piece.
RECURSIVE splitFrom(_, _, _)
splitFrom(s, i, cur) ==
    IF i > Len(s) THEN <<cur>>
    ELSE IF s[i] \in SpaceChars
         THEN IF i > 1 /\ s[i - 1] \in SpaceChars
              THEN splitFrom(s, i + 1, cur)
              ELSE <<cur>> \o splitFrom(s, i + 1, <<>>)
         ELSE splitFrom(s, i + 1, Append(cur, s[i]))

splitSpaces(s) == splitFrom(s, 1, <<>>)

\* xs.filter(token => token.length > n)
RECURSIVE filterLonger(_, _)
filterLonger(xs, n) ==
    IF xs = <<>> THEN <<>>
    ELSE IF Len(Head(xs)) > n
         THEN <<Head(xs)>> \o filterLonger(Tail(xs), n)
         ELSE filterLonger(Tail(xs), n)

\* the tokenizer without its toLowerCase
tokenizeTextCaseKept(text) ==
    filterLonger(splitSpaces(replaceNonWord(text)), 1)

tokenizeText(text) ==
    filterLonger(splitSpaces(replaceNonWord(toLowerCase(text))), 1)

\* String.prototype.startsWith
startsWith(s, p) == Len(p) <= Len(s) /\ SubSeq(s, 1, Len(p)) = p

\* String.prototype.includes
includes(s, p) == \E i \in 0..(Len(s) - Len(p)) : SubSeq(s, i + 1, i + Len(p)) = p

\* String.prototype.indexOf: the first position (from 0), -1 when absent
indexOf(s, p) ==
    IF includes(s, p)
    THEN CHOOSE i \in 0..(Len(s) - Len(p)) :
           /\ SubSeq(s, i + 1, i + Len(p)) = p
           /\ \A j \in 0..(i - 1) : SubSeq(s, j + 1, j + Len(p)) # p
    ELSE -1

\* [...new Set(tokens)]: the distinct elements in order of first occurrence
RECURSIVE uniqueOf(_, _)
uniqueOf(xs, seen) ==
    IF xs = <<>> THEN <<>>
    ELSE IF Head(xs) \in seen
         THEN uniqueOf(Tail(xs), seen)
         ELSE <<Head(xs)>> \o uniqueOf(Tail(xs), seen \cup {Head(xs)})

Range(f) == {f[x] : x \in DOMAIN f}

\* The lower-case, word-character-only names every plain object inherits from
\* Object.prototype: obj[name] is a truthy value that is not a Set although
\* name is no key of obj.
w_constructor == <<"c", "o", "n", "s", "t", "r", "u", "c", "t", "o", "r">>

w_proto == <<"_", "_", "p", "r", "o", "t", "o", "_", "_">>

InheritedTokens == {w_constructor, w_proto}

\* ------------------------------------------------------------------------
\* The texts of the model
\* ------------------------------------------------------------------------

s_Tax == <<"T", "a", "x">>

s_vat_pie == <<"v", "a", "t", ",", " ", "p", "i", "e">>

s_Pie == <<"P", "i", "e">>

s_tax_a_b == <<"t", "a", "x", " ", "a", "-", "b">>

s_Jam == <<"J", "a", "m">>

s_vat == <<"v", "a", "t">>

s_jam == <<"j", "a", "m">>

s_constructor_tax == <<"c", "o", "n", "s", "t", "r", "u", "c", "t", "o", "r", " ", "t", "a", "x">>

s_foo == <<"f", "o", "o">>

\* a path that begins with the router's search segment
s_searching == <<"s", "e", "a", "r", "c", "h", "i", "n", "g">>

\* The contents an editor can save: what POST /content stores under a path.
\* Every one passes the content store's validation (title and body, or
\* title, introduction and at least one part with title and body).
Versions ==
    << [document_type |-> "simple-page", title |-> s_Tax, body |-> s_vat_pie,
        introduction |-> Null, parts |-> <<>>],
       [document_type |-> "simple-page", title |-> s_Pie, body |-> s_tax_a_b,
        introduction |-> Null, parts |-> <<>>],
       [document_type |-> "guide", title |-> s_Jam, body |-> Null,
        introduction |-> s_vat, parts |-> <<[title |-> s_Pie, body |-> s_jam]>>],
       [document_type |-> "simple-page", title |-> s_Jam, body |-> s_constructor_tax,
        introduction |-> Null, parts |-> <<>>] >>

\* The versions each document goes through.
VersionsOf(id) == IF id = 1 THEN {1, 4} ELSE {2, 3}

\* The version a document has when the services start.
InitialVersion(id) == IF id = 1 THEN 1 ELSE 2

\* path is the content store's unique key: one path per _id
PathOf(id) == IF id = 1 THEN s_foo ELSE s_searching

\* ------------------------------------------------------------------------
\* State
\* ------------------------------------------------------------------------

VARIABLES
    store,            \* the content store: _id -> [ver, state, updatedAt] or NoDoc
    now,              \* the clock, Date.now()
    documents,        \* searchIndex.documents: id -> indexed document
    tokenizedIndex,   \* searchIndex.tokenizedIndex: token -> Set of ids, in insertion order
    lastIndexedTime,  \* NoDate or the Date of the last completed pass
    phase,            \* the search service: "boot", "initialBuild", "serving"
    flights,          \* the axios.get calls of the search service awaiting their answer
    last,             \* what the last completed pass did (history, for the properties)
    count,            \* how many writes and passes have happened (for the bounds)
    lastSearch,       \* the last /search request and its response (history)
    lastHealth,       \* the last /health response and what it was answered from (history)
    lastTokenized,    \* the last text given to tokenizeText and its tokens (history)
    legacyIndex,      \* search-api/index.js: searchIndex, its documents in insertion order
    legacyPhase,      \* search-api/index.js: "boot" or "listening"
    legacyFlight,     \* the axios.get of its buildSearchIndex awaiting its answer
    legacyBuilt,      \* whether a buildSearchIndex of it has run to its end (history)
    lastLegacySearch, \* the last /search it answered (history)
    routeCache,       \* the router's routeCache: the own keys, path -> entry
    routerPhase,      \* the router: "boot" or "listening"
    routerFlight,     \* the axios.get of refreshRoutes awaiting its answer
    lastRefresh,      \* what the last completed refreshRoutes did (history)
    lastReply,        \* the last request the router answered and its reply (history)
    pending           \* the request whose handler awaits the frontend, or NoPending

searchVars == <<lastSearch, lastHealth, lastTokenized>>

legacyVars == <<legacyIndex, legacyPhase, legacyFlight, legacyBuilt, lastLegacySearch>>

routerVars == <<routeCache, routerPhase, routerFlight, lastRefresh, lastReply, pending>>

vars == <<store, now, documents, tokenizedIndex, lastIndexedTime, phase, flights, last, count,
          searchVars, legacyVars, routerVars>>

\* ------------------------------------------------------------------------
\* The content store (publishing-api)
\* ------------------------------------------------------------------------

\* The JSON of a stored document as the list endpoints return it.
ContentOf(id, d) ==
    [_id |-> id, path |-> PathOf(id), title |-> Versions[d.ver].title,
     body |-> Versions[d.ver].body, introduction |-> Versions[d.ver].introduction,
     parts |-> Versions[d.ver].parts, document_type |-> Versions[d.ver].document_type,
     state |-> d.state, updatedAt |-> d.updatedAt]

\* All orders of the elements of a finite set
Orders(S) == {f \in [1..Cardinality(S) -> S] : \A i, j \in DOMAIN f : i # j => f[i] # f[j]}

\* GET /published-content: Content.find({state: 'published'}).sort('-publishedAt').
\* publishedAt is not part of the model's store; a document can be published
\* again at any time, so every order of the published documents can be listed.
PublishedListings(st) ==
    LET ids == {id \in Ids : st[id].state = "published"}
    IN {[i \in DOMAIN o |-> ContentOf(o[i], st[o[i]])] : o \in Orders(ids)}

\* GET /content: Content.find({}).sort('-updatedAt'), ties in any order
AllListings(st) ==
    LET ids == {id \in Ids : st[id] # NoDoc}
        sorted(o) == \A i, j \in DOMAIN o : i < j => st[o[i]].updatedAt >= st[o[j]].updatedAt
    IN {[i \in DOMAIN o |-> ContentOf(o[i], st[o[i]])] : o \in {o \in Orders(ids) : sorted(o)}}

\* POST /content: findOneAndUpdate({path}, {...contentData, updatedAt: Date.now()},
\* {upsert: true}); a new document is a draft, an existing one keeps its state.
SaveContent(id, ver) ==
    /\ ver \in VersionsOf(id)
    /\ count.writes < MaxWrites
    /\ count' = [count EXCEPT !.writes = @ + 1]
    /\ store' = [store EXCEPT ![id] =
                    [ver |-> ver,
                     state |-> IF store[id] = NoDoc THEN "draft" ELSE store[id].state,
                     updatedAt |-> now]]
    /\ UNCHANGED <<now, documents, tokenizedIndex, lastIndexedTime, phase, flights, last, searchVars, legacyVars, routerVars>>

\* POST /content/:id/publish: sets state and publishedAt, not updatedAt
Publish(id) ==
    /\ store[id].state = "draft"
    /\ count.writes < MaxWrites
    /\ count' = [count EXCEPT !.writes = @ + 1]
    /\ store' = [store EXCEPT ![id].state = "published"]
    /\ UNCHANGED <<now, documents, tokenizedIndex, lastIndexedTime, phase, flights, last, searchVars, legacyVars, routerVars>>

\* Time passes.
Tick ==
    /\ now < MaxTime
    /\ now' = now + 1
    /\ UNCHANGED <<store, documents, tokenizedIndex, lastIndexedTime, phase, flights, last, count, searchVars, legacyVars, routerVars>>

\* ------------------------------------------------------------------------
\* The search index (searchIndex.documents, searchIndex.tokenizedIndex)
\* ------------------------------------------------------------------------

\* content.parts.forEach(part => searchableText += part.title + ' ' + part.body + ' ')
RECURSIVE partsText(_)
partsText(parts) ==
    IF parts = <<>> THEN <<>>
    ELSE Head(parts).title \o <<" ">> \o Head(parts).body \o <<" ">> \o partsText(Tail(parts))

searchableTextOf(content) ==
    content.title \o <<" ">> \o
    (IF content.document_type = "simple-page" THEN content.body
     ELSE IF content.document_type = "guide"
          THEN content.introduction \o <<" ">> \o partsText(content.parts)
          ELSE <<>>)

\* Set.prototype.delete on a Set kept in insertion order
setDelete(s, id) == SelectSeq(s, LAMBDA x : x # id)

\* Set.prototype.add on a Set kept in insertion order
setAdd(s, id) == IF id \in Range(s) THEN s ELSE Append(s, id)

\* delete obj[key]
deleteKey(obj, key) == [k \in DOMAIN obj \ {key} |-> obj[k]]

\* obj[key] = value
setKey(obj, key, value) == [k \in DOMAIN obj \cup {key} |-> IF k = key THEN value ELSE obj[k]]

\* oldTokens.forEach(token => { if (tokenizedIndex[token]) { ....delete(id); if (size === 0)
\* delete tokenizedIndex[token] } }). A token that is no key of the index but a name
\* inherited from Object.prototype is truthy and has no delete method: TypeError.
RECURSIVE removeTokens(_, _, _)
removeTokens(idx, tokens, id) ==
    IF tokens = <<>> THEN [idx |-> idx, threw |-> FALSE]
    ELSE LET t == Head(tokens) IN
         IF t \in DOMAIN idx
         THEN LET s == setDelete(idx[t], id) IN
              removeTokens(IF Len(s) = 0 THEN deleteKey(idx, t) ELSE setKey(idx, t, s),
                           Tail(tokens), id)
         ELSE IF t \in InheritedTokens
              THEN [idx |-> idx, threw |-> TRUE]
              ELSE removeTokens(idx, Tail(tokens), id)

\* uniqueTokens.forEach(token => { if (!tokenizedIndex[token]) tokenizedIndex[token] =
\* new Set(); tokenizedIndex[token].add(id) }). For an inherited name the test is
\* false and the inherited value has no add method: TypeError.
RECURSIVE addTokens(_, _, _)
addTokens(idx, tokens, id) ==
    IF tokens = <<>> THEN [idx |-> idx, threw |-> FALSE]
    ELSE LET t == Head(tokens) IN
         IF t \in DOMAIN idx
         THEN addTokens(setKey(idx, t, setAdd(idx[t], id)), Tail(tokens), id)
         ELSE IF t \in InheritedTokens
              THEN [idx |-> idx, threw |-> TRUE]
              ELSE addTokens(setKey(idx, t, <<id>>), Tail(tokens), id)

\* The index after indexDocument(content), and whether it threw.
indexDocument(docs, idx, content) ==
    LET id == content._id
        searchableText == searchableTextOf(content)
        rem == IF id \in DOMAIN docs
               THEN removeTokens(idx, tokenizeText(docs[id].text), id)
               ELSE [idx |-> idx, threw |-> FALSE]
    IN IF rem.threw
       THEN [documents |-> docs, tokenizedIndex |-> rem.idx, threw |-> TRUE]
       ELSE LET stored == [id |-> id, path |-> content.path, title |-> content.title,
                           type |-> content.document_type,
                           text |-> toLowerCase(searchableText),
                           updatedAt |-> content.updatedAt]
                add == addTokens(rem.idx, uniqueOf(tokenizeText(searchableText), {}), id)
            IN [documents |-> setKey(docs, id, stored), tokenizedIndex |-> add.idx,
                threw |-> add.threw]

\* contents.forEach(content => indexDocument(content)): stops at the first throw.
\* called is the list of ids indexDocument was called with.
RECURSIVE indexAll(_, _, _, _)
indexAll(docs, idx, contents, called) ==
    IF contents = <<>>
    THEN [documents |-> docs, tokenizedIndex |-> idx, threw |-> FALSE, called |-> called]
    ELSE LET r == indexDocument(docs, idx, Head(contents)) IN
         IF r.threw
         THEN [documents |-> r.documents, tokenizedIndex |-> r.tokenizedIndex,
               threw |-> TRUE, called |-> Append(called, Head(contents)._id)]
         ELSE indexAll(r.documents, r.tokenizedIndex, Tail(contents),
                       Append(called, Head(contents)._id))

EmptyObject == [k \in {} |-> Null]

\* ------------------------------------------------------------------------
\* The refresh passes of the search service
\* ------------------------------------------------------------------------

\* What an axios.get of a listing can come back with: a rejection (transport
\* failure or a status outside 2xx), a 2xx answer carrying the listing, or a
\* 2xx answer whose body has no contents array (the body is whatever the peer
\* sent; the code reads response.data.contents unchecked).
Answers(fn, listings) ==
    {[fn |-> fn, kind |-> "error", contents |-> <<>>],
     [fn |-> fn, kind |-> "noContents", contents |-> <<>>]}
    \cup {[fn |-> fn, kind |-> "ok", contents |-> l] : l \in listings}

\* buildSearchIndex taking, as incrementalIndexUpdate does, only the documents
\* updated after lastIndexedTime once there is one.
buildSearchIndexFiltered(docs, idx, lit, r, t) ==
    IF r.kind = "error"
    THEN [documents |-> docs, tokenizedIndex |-> idx, lastIndexedTime |-> lit,
          failed |-> TRUE, called |-> <<>>]
    ELSE IF r.kind = "noContents"
         THEN [documents |-> EmptyObject, tokenizedIndex |-> EmptyObject,
               lastIndexedTime |-> lit, failed |-> TRUE, called |-> <<>>]
         ELSE LET contents == IF lit = NoDate THEN r.contents
                              ELSE SelectSeq(r.contents, LAMBDA c : c.updatedAt > lit.time)
                  a == indexAll(EmptyObject, EmptyObject, contents, <<>>)
              IN [documents |-> a.documents, tokenizedIndex |-> a.tokenizedIndex,
                  lastIndexedTime |-> IF a.threw THEN lit ELSE DateAt(t),
                  failed |-> a.threw, called |-> a.called]

\* buildSearchIndex from the answer r on: the index, lastIndexedTime, whether
\* the catch branch ran, and the ids indexDocument was called with.
buildSearchIndex(docs, idx, lit, r, t) ==
    IF r.kind = "error"
    THEN [documents |-> docs, tokenizedIndex |-> idx, lastIndexedTime |-> lit,
          failed |-> TRUE, called |-> <<>>]
    ELSE IF r.kind = "noContents"
         THEN \* contents is undefined: both maps are cleared, then contents.forEach throws
              [documents |-> EmptyObject, tokenizedIndex |-> EmptyObject,
               lastIndexedTime |-> lit, failed |-> TRUE, called |-> <<>>]
         ELSE LET a == indexAll(EmptyObject, EmptyObject, r.contents, <<>>) IN
              [documents |-> a.documents, tokenizedIndex |-> a.tokenizedIndex,
               lastIndexedTime |-> IF a.threw THEN lit ELSE DateAt(t),
               failed |-> a.threw, called |-> a.called]

\* allContent.filter(content => new Date(content.updatedAt) > lastIndexedTime
\*                              && content.state === 'published')
updatedContentsOf(contents, lit) ==
    SelectSeq(contents, LAMBDA c : c.updatedAt > lit.time /\ c.state = "published")

\* incrementalIndexUpdate without the early return: lastIndexedTime is set even
\* when no document passed the filter.
incrementalIndexUpdateNoEarlyReturn(docs, idx, lit, r, t) ==
    IF r.kind = "error" \/ r.kind = "noContents"
    THEN [documents |-> docs, tokenizedIndex |-> idx, lastIndexedTime |-> lit,
          failed |-> TRUE, called |-> <<>>]
    ELSE LET a == indexAll(docs, idx, updatedContentsOf(r.contents, lit), <<>>) IN
         [documents |-> a.documents, tokenizedIndex |-> a.tokenizedIndex,
          lastIndexedTime |-> IF a.threw THEN lit ELSE DateAt(t),
          failed |-> a.threw, called |-> a.called]

\* incrementalIndexUpdate from the answer r on (lastIndexedTime is not null).
incrementalIndexUpdate(docs, idx, lit, r, t) ==
    IF r.kind = "error" \/ r.kind = "noContents"
    THEN \* allContent is undefined: allContent.filter throws before any change
         [documents |-> docs, tokenizedIndex |-> idx, lastIndexedTime |-> lit,
          failed |-> TRUE, called |-> <<>>]
    ELSE LET updatedContents == updatedContentsOf(r.contents, lit) IN
         IF Len(updatedContents) = 0
         THEN [documents |-> docs, tokenizedIndex |-> idx, lastIndexedTime |-> lit,
               failed |-> FALSE, called |-> <<>>]
         ELSE LET a == indexAll(docs, idx, updatedContents, <<>>) IN
              [documents |-> a.documents, tokenizedIndex |-> a.tokenizedIndex,
               lastIndexedTime |-> IF a.threw THEN lit ELSE DateAt(t),
               failed |-> a.threw, called |-> a.called]

\* before any pass has completed: the index has held no version of any document
NoPass == [op |-> "none", held |-> [id \in Ids |-> -1]]

\* the number of requests awaiting their answer
InFlight == Cardinality({slot \in DOMAIN flights : flights[slot] # NoFlight})

\* the newest updatedAt of the versions of id that documents has held up to now
\* (-1 when it has held none)
heldUpToNow(id) ==
    IF id \in DOMAIN documents /\ documents[id].updatedAt > last.held[id]
    THEN documents[id].updatedAt
    ELSE last.held[id]

PassRecord(op, slot, r, res) ==
    [op |-> op, slot |-> slot, kind |-> r.kind, contents |-> r.contents, failed |-> res.failed,
     called |-> res.called, preDocuments |-> documents, preIndex |-> tokenizedIndex,
     preTime |-> lastIndexedTime, at |-> now, held |-> [id \in Ids |-> heldUpToNow(id)]]

\* initializeSearchAPI: await buildSearchIndex() -- the request is sent
BootBuild ==
    /\ phase = "boot"
    /\ phase' = "initialBuild"
    /\ count' = [count EXCEPT !.passes = @ + 1]
    /\ \E r \in Answers("build", PublishedListings(store)) :
          flights' = [flights EXCEPT !.full = r]
    /\ UNCHANGED <<store, now, documents, tokenizedIndex, lastIndexedTime, last, searchVars, legacyVars, routerVars>>

\* buildSearchIndex up to its await, called by the hourly timer: the request
\* is sent
StartFullBuild ==
    /\ phase = "serving"
    /\ flights.full = NoFlight
    /\ \E r \in Answers("build", PublishedListings(store)) :
          flights' = [flights EXCEPT !.full = r]
    /\ UNCHANGED <<store, now, documents, tokenizedIndex, lastIndexedTime, phase, last, searchVars, legacyVars, routerVars>>

\* an incrementalIndexUpdate that goes on to its own request whatever
\* lastIndexedTime is
delegatesToFullBuildNever(lit) == FALSE

\* if (!lastIndexedTime) return buildSearchIndex()
delegatesToFullBuild(lit) == lit = NoDate

\* incrementalIndexUpdate up to its await: with no lastIndexedTime it returns
\* buildSearchIndex(), else it requests /content
StartIncremental ==
    /\ phase = "serving"
    /\ flights.incr = NoFlight
    /\ IF delegatesToFullBuild(lastIndexedTime)
       THEN \E r \in Answers("build", PublishedListings(store)) :
               flights' = [flights EXCEPT !.incr = r]
       ELSE \E r \in Answers("incr", AllListings(store)) :
               flights' = [flights EXCEPT !.incr = r]
    /\ UNCHANGED <<store, now, documents, tokenizedIndex, lastIndexedTime, phase, last, searchVars, legacyVars, routerVars>>

\* setInterval(buildSearchIndex, 60 * 60 * 1000) fires
TimerFullBuild ==
    /\ count.passes < MaxPasses
    /\ InFlight < MaxInFlight
    /\ count' = [count EXCEPT !.passes = @ + 1]
    /\ StartFullBuild

\* setInterval(incrementalIndexUpdate, 1 * 60 * 1000) fires
TimerIncremental ==
    /\ count.passes < MaxPasses
    /\ InFlight < MaxInFlight
    /\ count' = [count EXCEPT !.passes = @ + 1]
    /\ StartIncremental

\* the timers as they fire for as long as the service runs
FullBuildFires == InFlight < MaxInFlight /\ StartFullBuild /\ UNCHANGED count

IncrementalFires == InFlight < MaxInFlight /\ StartIncremental /\ UNCHANGED count

\* the timers as they fire while the other timer's request awaits its answer
FullBuildOverlaps == StartFullBuild /\ UNCHANGED count

IncrementalOverlaps == StartIncremental /\ UNCHANGED count

\* buildSearchIndex with lastIndexedTime = new Date() moved up to the clearing
\* of the index: it is set whether or not the rest of the function throws.
CompleteBuildStampsFirst(slot) ==
    /\ flights[slot] # NoFlight
    /\ flights[slot].fn = "build"
    /\ LET r == flights[slot]
           res == buildSearchIndex(documents, tokenizedIndex, lastIndexedTime, r, now)
       IN /\ documents' = res.documents
          /\ tokenizedIndex' = res.tokenizedIndex
          /\ lastIndexedTime' = IF r.kind = "error" THEN lastIndexedTime ELSE DateAt(now)
          /\ last' = PassRecord("build", slot, r, res)
    /\ flights' = [flights EXCEPT ![slot] = NoFlight]
    /\ phase' = IF phase = "initialBuild" /\ slot = "full" THEN "serving" ELSE phase
    /\ UNCHANGED <<store, now, count, searchVars, legacyVars, routerVars>>

\* The answer of a buildSearchIndex request arrives: the rest of the function
\* runs without suspension.  The initial build then starts the timers and the
\* server.
CompleteBuild(slot) ==
    /\ flights[slot] # NoFlight
    /\ flights[slot].fn = "build"
    /\ LET r == flights[slot]
           res == buildSearchIndex(documents, tokenizedIndex, lastIndexedTime, r, now)
       IN /\ documents' = res.documents
          /\ tokenizedIndex' = res.tokenizedIndex
          /\ lastIndexedTime' = res.lastIndexedTime
          /\ last' = PassRecord("build", slot, r, res)
    /\ flights' = [flights EXCEPT ![slot] = NoFlight]
    /\ phase' = IF phase = "initialBuild" /\ slot = "full" THEN "serving" ELSE phase
    /\ UNCHANGED <<store, now, count, searchVars, legacyVars, routerVars>>

\* The answer of incrementalIndexUpdate's request arrives.
CompleteIncremental ==
    /\ flights.incr # NoFlight
    /\ flights.incr.fn = "incr"
    /\ LET r == flights.incr
           res == incrementalIndexUpdate(documents, tokenizedIndex, lastIndexedTime, r, now)
       IN /\ documents' = res.documents
          /\ tokenizedIndex' = res.tokenizedIndex
          /\ lastIndexedTime' = res.lastIndexedTime
          /\ last' = PassRecord("incr", "incr", r, res)
    /\ flights' = [flights EXCEPT !.incr = NoFlight]
    /\ UNCHANGED <<store, now, phase, count, searchVars, legacyVars, routerVars>>

\* ------------------------------------------------------------------------
\* The /search handler
\* ------------------------------------------------------------------------

\* A query parameter: absent (undefined) or a string.  The values of q, page
\* and pageSize are sequences of characters; the value of type, which is only
\* compared with a document's type, is the type's name.
Absent == [present |-> FALSE]

Param(str) == [present |-> TRUE, value |-> str]

NaN == [nan |-> TRUE]

Num(n) == [nan |-> FALSE, value |-> n]

DigitValue(c) ==
    CASE c = "0" -> 0 [] c = "1" -> 1 [] c = "2" -> 2 [] c = "3" -> 3 [] c = "4" -> 4
      [] c = "5" -> 5 [] c = "6" -> 6 [] c = "7" -> 7 [] c = "8" -> 8 [] c = "9" -> 9

\* the value of the longest prefix of decimal digits of s from position i on
RECURSIVE digitsValue(_, _, _)
digitsValue(s, i, acc) ==
    IF i <= Len(s) /\ s[i] \in Digits
    THEN digitsValue(s, i + 1, 10 * acc + DigitValue(s[i]))
    ELSE acc

RECURSIVE skipSpaces(_, _)
skipSpaces(s, i) == IF i <= Len(s) /\ s[i] \in SpaceChars THEN skipSpaces(s, i + 1) ELSE i

\* parseInt(v): leading white space, an optional sign, then decimal digits up
\* to the first other character; NaN when there is no digit (or v is undefined)
parseInt(v) ==
    IF ~v.present THEN NaN
    ELSE LET s == v.value
             i == skipSpaces(s, 1)
             signed == i <= Len(s) /\ s[i] \in {"-", "+"}
             j == IF signed THEN i + 1 ELSE i
         IN IF j <= Len(s) /\ s[j] \in Digits
            THEN Num(IF signed /\ s[i] = "-" THEN 0 - digitsValue(s, j, 0)
                     ELSE digitsValue(s, j, 0))
            ELSE NaN

\* parseInt(v) || d: NaN and 0 are falsy
orDefault(n, d) == IF n.nan \/ n.value = 0 THEN d ELSE n.value

Min(a, b) == IF a < b THEN a ELSE b

Max(a, b) == IF a > b THEN a ELSE b

\* Array.prototype.slice(start, end) and String.prototype.substring on
\* positions counted from 0; a negative position counts from the end
slice(xs, start, end) ==
    LET n == Len(xs)
        from == IF start < 0 THEN Max(n + start, 0) ELSE Min(start, n)
        to == IF end < 0 THEN Max(n + end, 0) ELSE Min(end, n)
    IN SubSeq(xs, from + 1, to)

\* Math.ceil(a / b) for a >= 0 and b # 0
ceilDiv(a, b) ==
    IF b > 0 THEN (a + b - 1) \div b
    ELSE 0 - (a \div (0 - b))

\* generateSnippet's default maxLength
SnippetMaxLength == 160

\* generateSnippet starts this many characters before the first match
SnippetLead == 60

\* the smallest indexOf of a query token in the text, -1 when none occurs
RECURSIVE bestPositionOf(_, _, _)
bestPositionOf(text, tokens, best) ==
    IF tokens = <<>> THEN best
    ELSE LET position == indexOf(text, Head(tokens)) IN
         bestPositionOf(text, Tail(tokens),
                        IF position # -1 /\ (best = -1 \/ position < best)
                        THEN position ELSE best)

\* while (startPos > 0 && text[startPos] !== ' ') startPos--
RECURSIVE backToSpace(_, _)
backToSpace(text, pos) ==
    IF pos > 0 /\ (pos >= Len(text) \/ text[pos + 1] # " ")
    THEN backToSpace(text, pos - 1) ELSE pos

\* while (endPos < text.length && text[endPos] !== ' ') endPos++
RECURSIVE forwardToSpace(_, _)
forwardToSpace(text, pos) ==
    IF pos < Len(text) /\ text[pos + 1] # " "
    THEN forwardToSpace(text, pos + 1) ELSE pos

Ellipsis == <<".", ".", ".">>

generateSnippet(text, queryTokens) ==
    LET bestPosition == bestPositionOf(toLowerCase(text), queryTokens, -1) IN
    IF Len(text) = 0 \/ Len(queryTokens) = 0 \/ bestPosition = -1
    THEN slice(text, 0, SnippetMaxLength) \o Ellipsis
    ELSE LET start0 == Max(0, bestPosition - SnippetLead)
             end0 == Min(Len(text), start0 + SnippetMaxLength)
             startPos == backToSpace(text, start0)
             endPos == forwardToSpace(text, end0)
         IN (IF startPos > 0 THEN Ellipsis ELSE <<>>)
            \o slice(text, startPos, endPos)
            \o (IF endPos < Len(text) THEN Ellipsis ELSE <<>>)

\* searchIndex.tokenizedIndex[token] || new Set(): the Set of the token, the
\* empty Set for an unknown token, and for a name inherited from
\* Object.prototype the inherited value, which is no Set
NotASet == [isSet |-> FALSE]

SetOf(ids) == [isSet |-> TRUE, ids |-> ids]

lookupToken(idx, token) ==
    IF token \in DOMAIN idx THEN SetOf(idx[token])
    ELSE IF token \in InheritedTokens THEN NotASet
    ELSE SetOf(<<>>)

\* the ids listed under any of the tokens, instead of under every one
RECURSIVE matchIdsAny(_, _, _, _)
matchIdsAny(idx, tokens, matchingIds, isFirstToken) ==
    IF tokens = <<>> THEN [ids |-> matchingIds, threw |-> FALSE]
    ELSE LET listed == IF Head(tokens) \in DOMAIN idx THEN idx[Head(tokens)] ELSE <<>>
         IN matchIdsAny(idx, Tail(tokens),
                        matchingIds \o SelectSeq(listed, LAMBDA id : id \notin Range(matchingIds)),
                        FALSE)

\* queryTokens.forEach(...): the first token's Set is copied (new Set(x) throws
\* for a value that is not iterable), every further token filters the ids
\* with x.has(id) (which throws, when there is an id to filter, for a value
\* without a has method)
RECURSIVE matchIds(_, _, _, _)
matchIds(idx, tokens, matchingIds, isFirstToken) ==
    IF tokens = <<>> THEN [ids |-> matchingIds, threw |-> FALSE]
    ELSE LET matchingDocsForToken == lookupToken(idx, Head(tokens)) IN
         IF isFirstToken
         THEN IF matchingDocsForToken = NotASet
              THEN [ids |-> <<>>, threw |-> TRUE]
              ELSE matchIds(idx, Tail(tokens), matchingDocsForToken.ids, FALSE)
         ELSE IF matchingDocsForToken = NotASet
              THEN IF Len(matchingIds) > 0
                   THEN [ids |-> <<>>, threw |-> TRUE]
                   ELSE matchIds(idx, Tail(tokens), <<>>, FALSE)
              ELSE matchIds(idx, Tail(tokens),
                            SelectSeq(matchingIds,
                                      LAMBDA id : id \in Range(matchingDocsForToken.ids)),
                            FALSE)

\* the title's weight, the extra weight of a title that starts with the
\* token, and the weight of the full text
TitleWeight == 3

TitlePrefixWeight == 2

TextWeight == 1

\* a score without the extra weight of a title that starts with the token
tokenScoreWithoutPrefix(doc, token) ==
    (IF includes(toLowerCase(doc.title), token) THEN TitleWeight ELSE 0)
    + (IF includes(doc.text, token) THEN TextWeight ELSE 0)

\* what one query token adds to a document's relevance
tokenScore(doc, token) ==
    LET titleText == toLowerCase(doc.title) IN
    (IF includes(titleText, token)
     THEN TitleWeight + (IF startsWith(titleText, token) THEN TitlePrefixWeight ELSE 0)
     ELSE 0)
    + (IF includes(doc.text, token) THEN TextWeight ELSE 0)

RECURSIVE relevanceOf(_, _)
relevanceOf(doc, tokens) ==
    IF tokens = <<>> THEN 0
    ELSE tokenScore(doc, Head(tokens)) + relevanceOf(doc, Tail(tokens))

\* [...matchingIds].map(id => ...).filter(item => item !== null)
RECURSIVE resultItems(_, _, _, _)
resultItems(docs, ids, queryTokens, type) ==
    IF ids = <<>> THEN <<>>
    ELSE LET doc == docs[Head(ids)]
             relevance == relevanceOf(doc, queryTokens)
             rest == resultItems(docs, Tail(ids), queryTokens, type)
         IN IF (type.present /\ doc.type # type.value) \/ relevance = 0
            THEN rest
            ELSE <<[id |-> doc.id, title |-> doc.title, path |-> doc.path,
                    type |-> doc.type, snippet |-> generateSnippet(doc.text, queryTokens),
                    updatedAt |-> doc.updatedAt, relevance |-> relevance]>> \o rest

\* insert item into a list sorted by descending relevance, after its equals
RECURSIVE insertByRelevance(_, _)
insertByRelevance(sorted, item) ==
    IF sorted = <<>> THEN <<item>>
    ELSE IF Head(sorted).relevance >= item.relevance
         THEN <<Head(sorted)>> \o insertByRelevance(Tail(sorted), item)
         ELSE <<item>> \o sorted

\* the result list left in the order of the candidates
sortByRelevanceSkipped(items) == items

\* .sort((a, b) => b.relevance - a.relevance): a stable sort
RECURSIVE sortByRelevance(_)
sortByRelevance(items) ==
    IF items = <<>> THEN <<>>
    ELSE insertByRelevance(sortByRelevance(SubSeq(items, 1, Len(items) - 1)),
                           items[Len(items)])

DefaultPage == 1

DefaultPageSize == 10

EmptyResponse(page, pageSize) ==
    [threw |-> FALSE, results |-> <<>>, total |-> 0, page |-> page,
     pageSize |-> pageSize, totalPages |-> 0,
     queryTokens |-> <<>>, candidates |-> <<>>, sorted |-> <<>>]

\* app.get('/search'): the JSON answered, or threw when the handler throws
\* (Express then answers 500).  queryTokens, candidates (the matching ids in
\* order) and sorted (the full result list) are kept for the properties.
searchHandler(docs, idx, req) ==
    LET query == IF req.q.present THEN toLowerCase(req.q.value) ELSE <<>>
        page == orDefault(parseInt(req.page), DefaultPage)
        pageSize == orDefault(parseInt(req.pageSize), DefaultPageSize)
        type == IF req.type.present /\ req.type.value # "" THEN req.type ELSE Absent
        queryTokens == tokenizeText(query)
    IN IF Len(query) = 0 \/ Len(queryTokens) = 0
       THEN EmptyResponse(page, pageSize)
       ELSE LET m == matchIds(idx, queryTokens, <<>>, TRUE) IN
            IF m.threw
            THEN [threw |-> TRUE, page |-> page, pageSize |-> pageSize,
                  queryTokens |-> queryTokens]
            ELSE LET results == sortByRelevance(resultItems(docs, m.ids, queryTokens, type))
                     total == Len(results)
                     startIndex == (page - 1) * pageSize
                 IN [threw |-> FALSE,
                     results |-> slice(results, startIndex, startIndex + pageSize),
                     total |-> total, page |-> page, pageSize |-> pageSize,
                     totalPages |-> ceilDiv(total, pageSize),
                     queryTokens |-> queryTokens, candidates |-> m.ids, sorted |-> results]

NoSearch == [req |-> Null]

\* A client asks /search; the server listens once the initial build is over.
\* MaxSearches bounds the requests clients send, /search and /health together.
Search(req) ==
    /\ phase = "serving"
    /\ count.searches < MaxSearches
    /\ count' = [count EXCEPT !.searches = @ + 1]
    /\ lastSearch' = [req |-> req, documents |-> documents, index |-> tokenizedIndex,
                      pass |-> last,
                      resp |-> searchHandler(documents, tokenizedIndex, req)]
    /\ UNCHANGED <<store, now, documents, tokenizedIndex, lastIndexedTime, phase, flights,
                   last, lastHealth, lastTokenized, legacyVars, routerVars>>

NoTokens == [text |-> Null]

\* tokenizeText is called with a text (the model follows one call)
Tokenize(text) ==
    /\ lastTokenized = NoTokens
    /\ lastTokenized' = [text |-> text, tokens |-> tokenizeText(text)]
    /\ UNCHANGED <<store, now, documents, tokenizedIndex, lastIndexedTime, phase, flights,
                   last, count, lastSearch, lastHealth, legacyVars, routerVars>>

\* ------------------------------------------------------------------------
\* The /health handler
\* ------------------------------------------------------------------------

\* Date.prototype.toISOString of a Date t milliseconds after the epoch (t < 10)
toISOString(date) ==
    <<"1", "9", "7", "0", "-", "0", "1", "-", "0", "1", "T",
      "0", "0", ":", "0", "0", ":", "0", "0", ".", "0", "0">>
    \o <<CHOOSE c \in Digits : DigitValue(c) = date.time>> \o <<"Z">>

\* the response that reports no time of indexing whatever lastIndexedTime is
healthHandlerWithoutTime(docs, lit) ==
    [status |-> "ok", documents |-> Cardinality(DOMAIN docs), lastIndexed |-> Null]

\* app.get('/health'): Object.keys(searchIndex.documents).length and
\* lastIndexedTime?.toISOString() || null
healthHandler(docs, lit) ==
    [status |-> "ok",
     documents |-> Cardinality(DOMAIN docs),
     lastIndexed |-> IF lit = NoDate THEN Null ELSE toISOString(lit)]

NoHealth == [status |-> Null]

\* A client asks /health; the server listens once the initial build is over.
Health ==
    /\ phase = "serving"
    /\ count.searches < MaxSearches
    /\ count' = [count EXCEPT !.searches = @ + 1]
    /\ lastHealth' = [status |-> "answered", documents |-> documents,
                      lastIndexedTime |-> lastIndexedTime,
                      resp |-> healthHandler(documents, lastIndexedTime)]
    /\ UNCHANGED <<store, now, documents, tokenizedIndex, lastIndexedTime, phase, flights,
                   last, lastSearch, lastTokenized, legacyVars, routerVars>>

\* ------------------------------------------------------------------------
\* The search service of search-api/index.js: one index of lower-cased texts,
\* rebuilt every five minutes
\* ------------------------------------------------------------------------

\* contents.forEach(content => searchIndex[content._id] = {...})
RECURSIVE legacyDocuments(_)
legacyDocuments(contents) ==
    IF contents = <<>> THEN <<>>
    ELSE <<[id |-> Head(contents)._id, path |-> Head(contents).path,
            title |-> Head(contents).title, type |-> Head(contents).document_type,
            text |-> toLowerCase(searchableTextOf(Head(contents)))]>>
         \o legacyDocuments(Tail(contents))

\* buildSearchIndex of search-api/index.js from the answer r on
legacyBuildSearchIndex(index, r) ==
    IF r.kind = "error" THEN index
    ELSE IF r.kind = "noContents"
         THEN <<>>  \* searchIndex = {} is assigned, then contents.forEach throws
         ELSE legacyDocuments(r.contents)

\* .filter(item => item.text.includes(query)).map(item => ({..., relevance}))
RECURSIVE legacyMatches(_, _)
legacyMatches(index, query) ==
    IF index = <<>> THEN <<>>
    ELSE (IF includes(Head(index).text, query)
          THEN <<[id |-> Head(index).id, title |-> Head(index).title,
                  path |-> Head(index).path, type |-> Head(index).type,
                  relevance |-> IF indexOf(Head(index).text, query) = 0 THEN 2 ELSE 1]>>
          ELSE <<>>)
         \o legacyMatches(Tail(index), query)

\* app.get('/search') of search-api/index.js
legacySearchHandler(index, q) ==
    LET query == toLowerCase(IF q.present THEN q.value ELSE <<>>)
    IN IF query = <<>> THEN <<>>
       ELSE sortByRelevance(legacyMatches(index, query))

\* Module load: buildSearchIndex() is called without await, then setInterval
\* and app.listen follow at once.
LegacyBoot ==
    /\ legacyPhase = "boot"
    /\ legacyPhase' = "listening"
    /\ count' = [count EXCEPT !.passes = @ + 1]
    /\ \E r \in Answers("build", PublishedListings(store)) : legacyFlight' = r
    /\ UNCHANGED <<store, now, documents, tokenizedIndex, lastIndexedTime, phase, flights,
                   last, searchVars, legacyIndex, legacyBuilt, lastLegacySearch, routerVars>>

\* setInterval(buildSearchIndex, 5 * 60 * 1000) fires
LegacyTimerBuild ==
    /\ legacyPhase = "listening"
    /\ legacyFlight = NoFlight
    /\ count.passes < MaxPasses
    /\ count' = [count EXCEPT !.passes = @ + 1]
    /\ \E r \in Answers("build", PublishedListings(store)) : legacyFlight' = r
    /\ UNCHANGED <<store, now, documents, tokenizedIndex, lastIndexedTime, phase, flights,
                   last, searchVars, legacyIndex, legacyPhase, legacyBuilt, lastLegacySearch,
                   routerVars>>

\* buildSearchIndex after its await
LegacyCompleteBuild ==
    /\ legacyFlight # NoFlight
    /\ legacyIndex' = legacyBuildSearchIndex(legacyIndex, legacyFlight)
    /\ legacyFlight' = NoFlight
    /\ legacyBuilt' = TRUE
    /\ UNCHANGED <<store, now, documents, tokenizedIndex, lastIndexedTime, phase, flights,
                   last, count, searchVars, legacyPhase, lastLegacySearch, routerVars>>

\* A client asks /search of search-api/index.js.
LegacySearch(q) ==
    /\ legacyPhase = "listening"
    /\ count.searches < MaxSearches
    /\ count' = [count EXCEPT !.searches = @ + 1]
    /\ lastLegacySearch' = [q |-> q, built |-> legacyBuilt,
                            results |-> legacySearchHandler(legacyIndex, q)]
    /\ UNCHANGED <<store, now, documents, tokenizedIndex, lastIndexedTime, phase, flights,
                   last, searchVars, legacyIndex, legacyPhase, legacyFlight, legacyBuilt,
                   routerVars>>

\* ------------------------------------------------------------------------
\* The router: the route cache and the request handlers, as router/index.js
\* has them ("index") and as its reworked draft has them ("reworked")
\* ------------------------------------------------------------------------

NoRefresh == [kind |-> "none"]

NoReply == [variant |-> "none"]

NotAsked == [kind |-> "notAsked"]

\* routeCache[path] as the handlers test it: an own key gives its entry, a name
\* inherited from Object.prototype gives a truthy value that is no entry,
\* anything else undefined.
lookup(cache, path) ==
    IF path \in DOMAIN cache THEN [found |-> TRUE, own |-> TRUE, entry |-> cache[path]]
    ELSE IF path \in InheritedTokens THEN [found |-> TRUE, own |-> FALSE]
    ELSE [found |-> FALSE, own |-> FALSE]

\* contents.forEach(content => routeCache[content.path] = {contentId, documentType})
RECURSIVE populate(_, _)
populate(cache, contents) ==
    IF contents = <<>> THEN cache
    ELSE populate(setKey(cache, Head(contents).path,
                         [contentId |-> Head(contents)._id,
                          documentType |-> Head(contents).document_type]),
                  Tail(contents))

\* refreshRoutes from the answer r on: the cache and whether the catch branch ran
refreshRoutes(cache, r) ==
    IF r.kind = "error"
    THEN [routeCache |-> cache, failed |-> TRUE]
    ELSE IF r.kind = "noContents"
         THEN \* contents is undefined: the cache is cleared, then contents.forEach throws
              [routeCache |-> EmptyObject, failed |-> TRUE]
         ELSE [routeCache |-> populate(EmptyObject, r.contents), failed |-> FALSE]

\* refreshRoutes() at module load, not awaited; app.listen follows at once
BootRefresh ==
    /\ routerPhase = "boot"
    /\ routerPhase' = "listening"
    /\ \E r \in Answers("refreshRoutes", PublishedListings(store)) : routerFlight' = r
    /\ count' = [count EXCEPT !.refreshes = @ + 1]
    /\ UNCHANGED <<store, now, documents, tokenizedIndex, lastIndexedTime, phase, flights,
                   last, searchVars, legacyVars, routeCache, lastRefresh, lastReply, pending>>

\* refreshRoutes up to its await, called by the timer
StartRefresh ==
    /\ routerPhase = "listening"
    /\ routerFlight = NoFlight
    /\ \E r \in Answers("refreshRoutes", PublishedListings(store)) : routerFlight' = r
    /\ UNCHANGED <<store, now, documents, tokenizedIndex, lastIndexedTime, phase, flights,
                   last, searchVars, legacyVars, routeCache, routerPhase, lastRefresh, lastReply, pending>>

\* setInterval(refreshRoutes, 5 * 60 * 1000)
TimerRefresh ==
    /\ count.refreshes < MaxRefreshes
    /\ count' = [count EXCEPT !.refreshes = @ + 1]
    /\ StartRefresh

\* the timer as it fires for as long as the router runs
RefreshFires == StartRefresh /\ UNCHANGED count

\* refreshRoutes after its await
CompleteRefresh ==
    /\ routerFlight # NoFlight
    /\ LET res == refreshRoutes(routeCache, routerFlight)
       IN /\ routeCache' = res.routeCache
          /\ lastRefresh' = [kind |-> routerFlight.kind, contents |-> routerFlight.contents,
                             failed |-> res.failed, preCache |-> routeCache,
                             postCache |-> res.routeCache]
    /\ routerFlight' = NoFlight
    /\ UNCHANGED <<store, now, documents, tokenizedIndex, lastIndexedTime, phase, flights,
                   last, count, searchVars, legacyVars, routerPhase, lastReply, pending>>

\* the part of a URL before its query string
pathPart(url) == IF includes(url, <<"?">>) THEN SubSeq(url, 1, indexOf(url, <<"?">>)) ELSE url

\* the query string of a URL without its "?"
queryPart(url) ==
    IF includes(url, <<"?">>) THEN SubSeq(url, indexOf(url, <<"?">>) + 2, Len(url)) ELSE <<>>

\* req.url.substring(req.url.indexOf('?'))
queryString(url) ==
    IF includes(url, <<"?">>) THEN SubSeq(url, indexOf(url, <<"?">>) + 1, Len(url)) ELSE <<>>

\* req.params.path of the route '/:path(*)'
paramsPath(url) == Tail(pathPart(url))

\* s.split(ch)
RECURSIVE splitAt(_, _, _, _)
splitAt(s, ch, i, cur) ==
    IF i > Len(s) THEN <<cur>>
    ELSE IF s[i] = ch THEN <<cur>> \o splitAt(s, ch, i + 1, <<>>)
         ELSE splitAt(s, ch, i + 1, Append(cur, s[i]))

\* the query parser's decoding: "+" is a space
RECURSIVE decodeQuery(_)
decodeQuery(s) ==
    IF s = <<>> THEN <<>>
    ELSE <<IF Head(s) = "+" THEN " " ELSE Head(s)>> \o decodeQuery(Tail(s))

\* encodeURIComponent: letters, digits and - _ . ! ~ * ' ( ) stay, the rest is
\* percent-encoded
RECURSIVE encodeURIComponent(_)
encodeURIComponent(s) ==
    IF s = <<>> THEN <<>>
    ELSE (CASE Head(s) = " " -> <<"%", "2", "0">>
            [] Head(s) = "+" -> <<"%", "2", "B">>
            [] Head(s) = "&" -> <<"%", "2", "6">>
            [] Head(s) = "=" -> <<"%", "3", "D">>
            [] Head(s) = "?" -> <<"%", "3", "F">>
            [] Head(s) = "/" -> <<"%", "2", "F">>
            [] OTHER -> <<Head(s)>>)
         \o encodeURIComponent(Tail(s))

\* req.query[key]: the decoded value of the first key=value pair of the query string
RECURSIVE pairValue(_, _)
pairValue(pairs, key) ==
    IF pairs = <<>> THEN Absent
    ELSE LET kv == splitAt(Head(pairs), "=", 1, <<>>)
         IN IF kv[1] = key
            THEN Param(decodeQuery(IF Len(kv) > 1 THEN kv[2] ELSE <<>>))
            ELSE pairValue(Tail(pairs), key)

reqQuery(url, key) ==
    IF queryPart(url) = <<>> THEN Absent
    ELSE pairValue(splitAt(queryPart(url), "&", 1, <<>>), key)

p_admin == <<"/", "a", "d", "m", "i", "n">>

p_search == <<"s", "e", "a", "r", "c", "h">>

p_slash_search == <<"/", "s", "e", "a", "r", "c", "h">>

p_notFound == <<"/", "4", "0", "4">>

p_root == <<"/">>

p_q == <<"?", "q", "=">>

\* axios's own validateStatus on every call
validateStatusDefault(config, status) == status >= 200 /\ status < 300

\* validateStatus of the three axios configurations
validateStatus(config, status) ==
    CASE config = "default" -> status >= 200 /\ status < 300
      [] config = "admin" -> status >= 200 /\ status < 500
      [] config = "all" -> TRUE

\* whether the awaited axios call resolves
resolves(config, answer) ==
    answer.kind = "answered" /\ validateStatus(config, answer.status)

\* Object.entries(response.headers).forEach(([key, value]) => res.setHeader(key, value))
copyHeaders(headers) == [k \in DOMAIN headers |-> headers[k]]

\* if (response.headers['content-type']) res.setHeader('Content-Type', ...)
contentTypeHeader(headers) ==
    IF "content-type" \in DOMAIN headers /\ headers["content-type"] # ""
    THEN [k \in {"content-type"} |-> headers["content-type"]]
    ELSE EmptyObject

\* {...req.headers, host: 'frontend:3001'}
forwardedHeaders(headers) ==
    [k \in DOMAIN headers \cup {"host"} |-> IF k = "host" THEN "frontend:3001" ELSE headers[k]]

FormType == "application/x-www-form-urlencoded"

NoBody == [kind |-> "none"]

\* the values a sequence of key/value pairs gives key, in order
RECURSIVE valuesOf(_, _)
valuesOf(pairs, key) ==
    IF pairs = <<>> THEN <<>>
    ELSE IF Head(pairs)[1] = key
         THEN <<Head(pairs)[2]>> \o valuesOf(Tail(pairs), key)
         ELSE valuesOf(Tail(pairs), key)

\* the keys of a sequence of key/value pairs, in order
RECURSIVE keysOf(_)
keysOf(pairs) == IF pairs = <<>> THEN <<>> ELSE <<Head(pairs)[1]>> \o keysOf(Tail(pairs))

\* bodyParser.urlencoded({extended: true}): an object whose keys are the field
\* names in order of first appearance; a repeated field becomes an array
parseForm(pairs) ==
    LET keys == uniqueOf(keysOf(pairs), {})
    IN [i \in DOMAIN keys |->
          [key |-> keys[i], isArray |-> Len(valuesOf(pairs, keys[i])) > 1,
           values |-> valuesOf(pairs, keys[i])]]

\* req.body after bodyParser.json() and bodyParser.urlencoded()
reqBody(req) ==
    CASE req.body.kind = "form" -> [kind |-> "object", entries |-> parseForm(req.body.pairs)]
      [] req.body.kind = "json" -> [kind |-> "json", value |-> req.body.value]
      [] OTHER -> [kind |-> "object", entries |-> <<>>]

\* for (const [key, value] of Object.entries(req.body)) value.forEach(item =>
\* params.append(key, item)) or params.append(key, value)
RECURSIVE appendEach(_, _)
appendEach(key, values) ==
    IF values = <<>> THEN <<>>
    ELSE <<<<key, Head(values)>>>> \o appendEach(key, Tail(values))

RECURSIVE searchParams(_)
searchParams(entries) ==
    IF entries = <<>> THEN <<>>
    ELSE appendEach(Head(entries).key, Head(entries).values) \o searchParams(Tail(entries))

\* axios's form serializer for a plain object: an array's items go under key[]
RECURSIVE bracketParams(_)
bracketParams(entries) ==
    IF entries = <<>> THEN <<>>
    ELSE appendEach(IF Head(entries).isArray THEN Head(entries).key \o "[]"
                    ELSE Head(entries).key,
                    Head(entries).values)
         \o bracketParams(Tail(entries))

\* axios.post(url, data, config) with a parsed body as data: a plain object is
\* sent as JSON, or (by an axios that serializes by the content-type header it
\* is given) as a form with bracketed array keys
postData(req, serializer) ==
    LET data == reqBody(req)
    IN IF data.kind = "json" THEN [kind |-> "json", value |-> data.value]
       ELSE IF serializer = "form" /\ req.body.kind = "form"
            THEN [kind |-> "form", pairs |-> bracketParams(data.entries)]
            ELSE [kind |-> "json", value |-> data.entries]

\* the POST branch of the reworked admin middleware
postDataReworked(req, serializer) ==
    IF "content-type" \in DOMAIN req.headers /\ req.headers["content-type"] = FormType
    THEN [kind |-> "form", pairs |-> searchParams(reqBody(req).entries)]
    ELSE postData(req, serializer)

\* what the client gets: branch is the handler branch taken, sent the requests
\* made of the frontend, answer the frontend's answer (NotAsked when nothing
\* was sent), headers the response headers the handler set
Reply(branch, sent, answer, status, body, headers) ==
    [branch |-> branch, sent |-> sent, answer |-> answer, status |-> status, body |-> body,
     headers |-> headers]

\* the admin middleware (app.use): GET and POST are forwarded
adminProxy(variant, req, serializer, answer) ==
    IF req.method \in {"GET", "POST"}
    THEN LET data == IF req.method = "GET" THEN NoBody
                     ELSE IF variant = "index" THEN postData(req, serializer)
                          ELSE postDataReworked(req, serializer)
             sent == <<[method |-> req.method, url |-> req.url,
                        headers |-> forwardedHeaders(req.headers), body |-> data]>>
         IN IF resolves("admin", answer)
            THEN IF answer.status = 304
                 THEN Reply("admin", sent, answer, answer.status, "",
                            copyHeaders(answer.headers))
                 ELSE Reply("admin", sent, answer, answer.status, answer.body,
                            copyHeaders(answer.headers))
            ELSE Reply("admin", sent, answer, 500, "Error processing admin request",
                       EmptyObject)
    ELSE \* response stays undefined: response.status throws, the catch answers
         Reply("admin", <<>>, NotAsked, 500, "Error processing admin request", EmptyObject)

\* axios.get(url) without a configuration
get(url) == <<[method |-> "GET", url |-> url, headers |-> EmptyObject, body |-> NoBody]>>

\* app.get('/:path(*)') of router/index.js
getIndex(cache, req, answer) ==
    LET path == paramsPath(req.url)
    IN IF startsWith(path, p_search)
       THEN LET q == reqQuery(req.url, <<"q">>)
                query == IF q.present /\ q.value # <<>>
                         THEN p_q \o encodeURIComponent(q.value) ELSE <<>>
                sent == get(p_slash_search \o query)
            IN IF resolves("default", answer)
               THEN Reply("search", sent, answer, 200, answer.body, EmptyObject)
               ELSE Reply("search", sent, answer, 500, "Error processing search request",
                          EmptyObject)
       ELSE IF path = <<>>
       THEN IF resolves("default", answer)
            THEN Reply("root", get(p_root), answer, 200, answer.body, EmptyObject)
            ELSE Reply("root", get(p_root), answer, 500, "Error processing homepage request",
                       EmptyObject)
       ELSE IF ~lookup(cache, path).found
       THEN IF resolves("default", answer)
            THEN Reply("miss", get(p_notFound), answer, 404, answer.body, EmptyObject)
            ELSE Reply("miss", get(p_notFound), answer, 404, "Page not found", EmptyObject)
       ELSE IF resolves("default", answer)
            THEN Reply("hit", get(p_root \o path), answer, 200, answer.body, EmptyObject)
            ELSE Reply("hit", get(p_root \o path), answer, 500,
                       "Error processing content request", EmptyObject)

\* app.get('/:path(*)') of the reworked router
getReworked(req, answer) ==
    LET path == paramsPath(req.url)
        branch == IF path = <<>> THEN "root"
                  ELSE IF startsWith(path, p_search) THEN "search" ELSE "content"
        targetUrl == IF path = <<>> THEN p_root
                     ELSE IF startsWith(path, p_search)
                          THEN p_slash_search \o queryString(req.url)
                          ELSE p_root \o path
        sent == get(targetUrl)
    IN IF resolves("all", answer)
       THEN Reply(branch, sent, answer, answer.status, answer.body,
                  contentTypeHeader(answer.headers))
       ELSE Reply(branch, sent, answer, 500, "Service communication error", EmptyObject)

\* the GET route alone, without the admin middleware before it
handleWithoutMiddleware(variant, cache, req, serializer, answer) ==
    IF req.method = "GET"
    THEN IF variant = "index" THEN getIndex(cache, req, answer)
         ELSE getReworked(req, answer)
    ELSE Reply("none", <<>>, NotAsked, 404, "Cannot " \o req.method, EmptyObject)

\* The middleware chain: the admin middleware, then the GET route, then
\* Express's answer for a request no route matches.
handle(variant, cache, req, serializer, answer) ==
    IF startsWith(req.url, p_admin) THEN adminProxy(variant, req, serializer, answer)
    ELSE IF req.method = "GET"
         THEN IF variant = "index" THEN getIndex(cache, req, answer)
              ELSE getReworked(req, answer)
         ELSE Reply("none", <<>>, NotAsked, 404, "Cannot " \o req.method, EmptyObject)

\* whether the handler awaits an answer of the frontend
asksFrontend(req) ==
    IF startsWith(req.url, p_admin) THEN req.method \in {"GET", "POST"}
    ELSE req.method = "GET"

\* whether the awaited axios call carries a timeout (timeout: 10000)
hasTimeout(variant, req) ==
    variant = "reworked" /\ ~startsWith(req.url, p_admin) /\ req.method = "GET"

\* the axios serializers that can show in what is sent for the request
serializersFor(variant, req) ==
    IF /\ startsWith(req.url, p_admin)
       /\ req.method = "POST"
       /\ req.body.kind = "form"
       /\ variant = "index"
    THEN {"json", "form"}
    ELSE {"json"}

NoPending == [variant |-> "none"]

Replied(handled, answer) ==
    [variant |-> handled.variant, req |-> handled.req, cache |-> handled.cache,
     refreshed |-> handled.refreshed, serializer |-> handled.serializer,
     reply |-> handle(handled.variant, handled.cache, handled.req, handled.serializer, answer)]

\* The router receives a request: the handler runs up to its await, or to its
\* end when it asks nothing of the frontend.
Receive(variant, req, serializer) ==
    /\ routerPhase = "listening"
    /\ pending = NoPending
    /\ count.requests < MaxRequests
    /\ serializer \in serializersFor(variant, req)
    /\ count' = [count EXCEPT !.requests = @ + 1]
    /\ LET handled == [variant |-> variant, req |-> req, cache |-> routeCache,
                       refreshed |-> lastRefresh # NoRefresh, serializer |-> serializer]
       IN IF asksFrontend(req)
          THEN pending' = handled /\ UNCHANGED lastReply
          ELSE lastReply' = Replied(handled, NotAsked) /\ UNCHANGED pending
    /\ UNCHANGED <<store, now, documents, tokenizedIndex, lastIndexedTime, phase, flights,
                   last, searchVars, legacyVars, routeCache, routerPhase, routerFlight, lastRefresh>>

\* The awaited call settles: the frontend answered, or the transport failed.
Respond(answer) ==
    /\ pending # NoPending
    /\ lastReply' = Replied(pending, answer)
    /\ pending' = NoPending
    /\ UNCHANGED <<store, now, documents, tokenizedIndex, lastIndexedTime, phase, flights,
                   last, count, searchVars, legacyVars, routeCache, routerPhase, routerFlight, lastRefresh>>

\* The frontend is silent and the call's timeout, where it has one, expires.
TimeoutFires ==
    /\ pending # NoPending
    /\ hasTimeout(pending.variant, pending.req)
    /\ lastReply' = Replied(pending, [kind |-> "timeout"])
    /\ pending' = NoPending
    /\ UNCHANGED <<store, now, documents, tokenizedIndex, lastIndexedTime, phase, flights,
                   last, count, searchVars, legacyVars, routeCache, routerPhase, routerFlight, lastRefresh>>

\* The content store outlives the services: when they start it holds any
\* documents, drafts or published, saved at time 0.
InitialStores ==
    {st \in [Ids -> {NoDoc} \cup [ver : 1..Len(Versions), state : {"draft", "published"},
                                  updatedAt : {0}]] :
        \A id \in Ids : st[id] # NoDoc => st[id].ver = InitialVersion(id)}

Init ==
    /\ store \in InitialStores
    /\ count = [writes |-> 0, passes |-> 0, searches |-> 0, refreshes |-> 0, requests |-> 0]
    /\ legacyIndex = <<>>
    /\ legacyPhase = "boot"
    /\ legacyFlight = NoFlight
    /\ legacyBuilt = FALSE
    /\ lastLegacySearch = NoSearch
    /\ routeCache = EmptyObject
    /\ routerPhase = "boot"
    /\ routerFlight = NoFlight
    /\ lastRefresh = NoRefresh
    /\ lastReply = NoReply
    /\ pending = NoPending
    /\ now = 0
    /\ documents = EmptyObject
    /\ tokenizedIndex = EmptyObject
    /\ lastIndexedTime = NoDate
    /\ phase = "boot"
    /\ flights = [full |-> NoFlight, incr |-> NoFlight]
    /\ last = NoPass
    /\ lastSearch = NoSearch
    /\ lastHealth = NoHealth
    /\ lastTokenized = NoTokens

\* The content store's writes and the search service's passes
Indexing ==
    \/ \E id \in Ids, ver \in 1..Len(Versions) : SaveContent(id, ver)
    \/ \E id \in Ids : Publish(id)
    \/ BootBuild
    \/ TimerFullBuild
    \/ TimerIncremental
    \/ \E slot \in {"full", "incr"} : CompleteBuild(slot)
    \/ CompleteIncremental

Next ==
    \/ Indexing
    \/ Tick

\* The search service's index over time
Spec == Init /\ [][Next]_vars

s_pie == <<"p", "i", "e">>

s_Pie_bang == <<"P", "i", "e", "!">>

s_tax_vat == <<"t", "a", "x", " ", "v", "a", "t">>

s_jam_tax == <<"j", "a", "m", " ", "t", "a", "x">>

s_a == <<"a">>

s_ox == <<"o", "x">>

s_vat_constructor == <<"v", "a", "t", " ", "c", "o", "n", "s", "t", "r", "u", "c", "t", "o", "r">>

\* The q, page, pageSize and type parameters clients send
Queries ==
    {Absent, Param(<<>>), Param(s_Tax), Param(s_Pie_bang), Param(s_tax_vat), Param(s_jam_tax),
     Param(s_a), Param(s_ox), Param(w_constructor), Param(s_vat_constructor)}

Pages == {Absent, Param(<<"2">>), Param(<<"3">>), Param(<<"-", "1">>), Param(<<"x">>)}

PageSizes == {Absent, Param(<<"1">>), Param(<<"0">>), Param(<<"-", "1">>), Param(<<"2", "x">>)}

Types == {Absent, Param(""), Param("guide"), Param("simple-page"), Param("other")}

Requests ==
    {[q |-> q, page |-> Absent, pageSize |-> Absent, type |-> Absent] : q \in Queries}
    \cup {[q |-> Param(s_pie), page |-> pg, pageSize |-> Param(<<"1">>), type |-> Absent] :
            pg \in Pages}
    \cup {[q |-> Param(s_pie), page |-> Absent, pageSize |-> ps, type |-> Absent] :
            ps \in PageSizes}
    \cup {[q |-> Param(s_pie), page |-> Absent, pageSize |-> Absent, type |-> t] :
            t \in Types}
    \cup {[q |-> q, page |-> Absent, pageSize |-> Absent, type |-> Param("other")] :
            q \in {Absent, Param(w_constructor)}}

NextSearch ==
    \/ Indexing
    \/ \E req \in Requests : Search(req)
    \/ Health

\* The /search handler over the indexes the passes build (the handler reads
\* no clock, so time stands still here)
SpecSearch == Init /\ [][NextSearch]_vars

u_admin == <<"/", "a", "d", "m", "i", "n", "/", "n", "e", "w">>

u_search == <<"/", "s", "e", "a", "r", "c", "h", "?", "q", "=", "a", "+", "b", "&", "p", "a", "g", "e", "=", "2">>

u_searching == <<"/", "s", "e", "a", "r", "c", "h", "i", "n", "g">>

u_foo == <<"/", "f", "o", "o">>

u_bar == <<"/", "b", "a", "r">>

u_constructor == <<"/", "c", "o", "n", "s", "t", "r", "u", "c", "t", "o", "r">>

\* The requests clients send the router
Methods == {"GET", "POST", "PUT"}

Urls == {p_root, u_admin, u_search, u_searching, u_foo, u_bar, u_constructor}

ClientHeaders == [k \in {"host", "accept"} |-> IF k = "host" THEN "router:3002" ELSE "text/html"]

FormHeaders == [k \in {"host", "content-type"} |-> IF k = "host" THEN "router:3002" ELSE FormType]

JsonHeaders ==
    [k \in {"host", "content-type"} |-> IF k = "host" THEN "router:3002" ELSE "application/json"]

\* a guide's form: two parts, so partTitles and partBodies come twice
GuideForm ==
    <<<<"title", "Jam">>, <<"partTitles", "Pie">>, <<"partBodies", "jam">>,
      <<"partTitles", "Tax">>, <<"partBodies", "vat">>>>

RouterRequests ==
    {[method |-> "GET", url |-> u, headers |-> ClientHeaders, body |-> NoBody] : u \in Urls}
    \cup {[method |-> m, url |-> u, headers |-> ClientHeaders, body |-> NoBody] :
            m \in Methods, u \in {u_admin, u_foo}}
    \cup {[method |-> m, url |-> u_admin, headers |-> FormHeaders,
           body |-> [kind |-> "form", pairs |-> GuideForm]] : m \in {"POST", "PUT"}}
    \cup {[method |-> "POST", url |-> u_admin, headers |-> JsonHeaders,
           body |-> [kind |-> "json", value |-> "Jam"]]}

\* The frontend's answers: none (a transport failure), or a status, headers and
\* a body
Statuses == {200, 304, 404, 503}

HeadersOf(status) ==
    CASE status = 200 -> [k \in {"content-type", "etag"} |->
                            IF k = "etag" THEN "v1" ELSE "text/html"]
      [] status = 304 -> [k \in {"etag"} |-> "v1"]
      [] status = 404 -> [k \in {"content-type"} |-> "text/html"]
      [] OTHER -> EmptyObject

FrontendAnswers ==
    {[kind |-> "unreachable"]}
    \cup {[kind |-> "answered", status |-> st, headers |-> HeadersOf(st),
           body |-> IF st = 304 THEN "" ELSE "page"] : st \in Statuses}

Variants == {"index", "reworked"}

Serializers == {"json", "form"}

NextRouter ==
    \/ \E id \in Ids, ver \in 1..Len(Versions) : SaveContent(id, ver)
    \/ \E id \in Ids : Publish(id)
    \/ BootRefresh
    \/ TimerRefresh
    \/ CompleteRefresh
    \/ \E variant \in Variants, req \in RouterRequests, serializer \in Serializers :
          Receive(variant, req, serializer)
    \/ \E answer \in FrontendAnswers : Respond(answer)
    \/ TimeoutFires

\* The router over the content store's writes
SpecRouter == Init /\ [][NextRouter]_vars

NextLegacy ==
    \/ \E id \in Ids, ver \in 1..Len(Versions) : SaveContent(id, ver)
    \/ \E id \in Ids : Publish(id)
    \/ LegacyBoot
    \/ LegacyTimerBuild
    \/ LegacyCompleteBuild
    \/ \E q \in Queries : LegacySearch(q)

\* The search service of search-api/index.js over the content store's writes
SpecLegacy == Init /\ [][NextLegacy]_vars

\* The router with its timers: an axios call that carries a timeout settles in
\* the end, whether or not the frontend ever answers; nothing makes the
\* frontend answer.
SpecRouterLive == Init /\ [][NextRouter]_vars /\ WF_vars(TimeoutFires)

NextCacheLive ==
    \/ \E id \in Ids, ver \in 1..Len(Versions) : SaveContent(id, ver)
    \/ \E id \in Ids : Publish(id)
    \/ BootRefresh
    \/ RefreshFires
    \/ CompleteRefresh

\* a request of the refresh timer that the content store answers with its listing
RefreshFetched == RefreshFires /\ routerFlight'.kind = "ok"

\* The router for as long as it runs: it starts, the refresh timer keeps
\* firing, every request is answered, and the content store answers with its
\* listing again and again.
SpecCacheLive ==
    /\ Init
    /\ [][NextCacheLive]_vars
    /\ WF_vars(BootRefresh)
    /\ WF_vars(CompleteRefresh)
    /\ SF_vars(RefreshFetched)

\* The texts tokenizeText is given: every string of up to MaxTextLen
\* characters over upper and lower case, the underscore, punctuation and
\* white space, and some longer ones with digits, tabs and line ends.
MaxTextLen == 5

TextChars == {"A", "b", "_", ",", " "}

s_Foo_bar_baz == <<"F", "o", "o", ",", " ", "b", "a", "r", "-", "b", "a", "z", "!">>

s_spaced == <<" ", "\t", "V", "A", "T", "2", "0", "\n", "\n", "x", " ", "o", "f", "\t">>

Texts ==
    UNION {[1..n -> TextChars] : n \in 0..MaxTextLen}
    \cup {s_Foo_bar_baz, s_spaced, s_tax_a_b, s_constructor_tax}

NextTokenize == \E text \in Texts : Tokenize(text)

\* tokenizeText over its inputs
SpecTokenize == Init /\ [][NextTokenize]_vars

NextIndexLive ==
    \/ \E id \in Ids, ver \in 1..Len(Versions) : SaveContent(id, ver)
    \/ \E id \in Ids : Publish(id)
    \/ BootBuild
    \/ FullBuildFires
    \/ IncrementalFires
    \/ \E slot \in {"full", "incr"} : CompleteBuild(slot)
    \/ CompleteIncremental

\* a request of the hourly timer that the content store answers with its listing
FullBuildFetched == FullBuildFires /\ flights'.full.kind = "ok"

\* The search service for as long as it runs: it starts, both timers keep
\* firing, and the content store answers the hourly build's request with its
\* listing again and again.  The clock stands still: everything happens within
\* one tick of it.
SpecIndexLive ==
    /\ Init
    /\ [][NextIndexLive]_vars
    /\ WF_vars(BootBuild)
    /\ SF_vars(FullBuildFetched)

\* The services start with a content store that holds at most one document,
\* the second, which an editor saves as a simple page and as a guide.
InitOverlap == Init /\ store[1] = NoDoc

NextOverlap ==
    \/ \E ver \in VersionsOf(2) : SaveContent(2, ver)
    \/ Publish(2)
    \/ Tick
    \/ BootBuild
    \/ FullBuildOverlaps
    \/ IncrementalOverlaps
    \/ \E slot \in {"full", "incr"} : CompleteBuild(slot)
    \/ CompleteIncremental

\* The search service with both timers running independently: a timer fires
\* whether or not the other one's request has been answered, and the answers
\* arrive in any order.
SpecOverlap == InitOverlap /\ [][NextOverlap]_vars

\* ------------------------------------------------------------------------
\* Properties of the index passes
\* ------------------------------------------------------------------------

\* the tokens of the text the index stores for id
StoredTokens(id) == Range(tokenizeText(documents[id].text))

\* the ids listed under token t
IdsUnder(t) == IF t \in DOMAIN tokenizedIndex THEN Range(tokenizedIndex[t]) ELSE {}

KnownTokens ==
    DOMAIN tokenizedIndex \cup UNION {StoredTokens(id) : id \in DOMAIN documents}

\* C1: a document id is listed under a token exactly when the token is a token
\* of the text the index currently stores for that document.
C1_IndexMatchesStoredText ==
    \A id \in Ids, t \in KnownTokens :
        id \in IdsUnder(t) <=> (id \in DOMAIN documents /\ t \in StoredTokens(id))

\* the ids of the fetched documents that pass incrementalIndexUpdate's filter
PassingIds(p) ==
    {p.contents[i]._id : i \in {j \in DOMAIN p.contents :
        /\ p.contents[j].updatedAt > p.preTime.time
        /\ p.contents[j].state = "published"}}

IncrementalRan == last.op = "incr" /\ last.kind = "ok"

\* C5: an incremental pass whose fetch succeeded called indexDocument on
\* exactly the fetched documents updated after lastIndexedTime and published.
C5_IncrementalIndexesExactlyChanged ==
    IncrementalRan => Range(last.called) = PassingIds(last)

\* C6 as claimed: every incremental pass whose fetch succeeded set
\* lastIndexedTime to the time it ran at.
C6_AlwaysAdvances ==
    IncrementalRan => lastIndexedTime = DateAt(last.at)

\* C6: an incremental pass whose fetch succeeded set lastIndexedTime to the
\* time it ran at when at least one document passed the filter and the pass
\* did not fail, and left lastIndexedTime as it was otherwise.
C6_AdvancesOnlyWhenIndexed ==
    IncrementalRan =>
        lastIndexedTime = IF PassingIds(last) # {} /\ ~last.failed
                          THEN DateAt(last.at)
                          ELSE last.preTime

\* C6 witness: an incremental pass ran later than the previous pass, found no
\* changed published document and left lastIndexedTime behind.
C6_Witness ==
    /\ IncrementalRan
    /\ PassingIds(last) = {}
    /\ last.at > last.preTime.time
    /\ lastIndexedTime = last.preTime

\* C7: after a pass that took its failure branch, documents and the token
\* index are what they were before the pass.
C7_FailedPassLeavesIndex ==
    (last.op # "none" /\ last.failed) =>
        (documents = last.preDocuments /\ tokenizedIndex = last.preIndex)

\* ------------------------------------------------------------------------
\* Properties of the /search handler
\* ------------------------------------------------------------------------

Searched == lastSearch # NoSearch

\* the last search had at least one query token
SearchedTokens ==
    /\ Searched
    /\ lastSearch.req.q.present
    /\ Len(tokenizeText(lastSearch.req.q.value)) > 0

QueryTokens == Range(tokenizeText(lastSearch.req.q.value))

\* the ids listed under every query token in the index the search read
ListedUnderAll ==
    {id \in Ids : \A t \in QueryTokens :
        t \in DOMAIN lastSearch.index /\ id \in Range(lastSearch.index[t])}

\* C2: a search with at least one token takes as candidates exactly the
\* documents listed under every query token, and answers an empty result when
\* a query token is no key of the index.
C2_AndSemantics ==
    SearchedTokens =>
        /\ ~lastSearch.resp.threw
        /\ Range(lastSearch.resp.candidates) = ListedUnderAll
        /\ (\E t \in QueryTokens : t \notin DOMAIN lastSearch.index)
              => (lastSearch.resp.results = <<>> /\ lastSearch.resp.total = 0)

\* C3: the answered slice is no longer than pageSize, totalPages is
\* ceil(total / pageSize), and a page beyond totalPages is empty with the same
\* total.
C3_Pagination ==
    (Searched /\ ~lastSearch.resp.threw) =>
        LET r == lastSearch.resp IN
        /\ Len(r.results) <= r.pageSize
        /\ \/ r.pageSize > 0 /\ r.totalPages * r.pageSize >= r.total
                             /\ (r.totalPages - 1) * r.pageSize < r.total
           \/ r.pageSize < 0 /\ r.totalPages * r.pageSize <= r.total
                             /\ (r.totalPages - 1) * r.pageSize > r.total
        /\ r.page > r.totalPages => (r.results = <<>> /\ r.total = Len(r.sorted))

\* the position of the result for document id in the full result list
PositionOf(id) ==
    CHOOSE i \in DOMAIN lastSearch.resp.sorted : lastSearch.resp.sorted[i].id = id

InTitle(id, t) == includes(toLowerCase(lastSearch.documents[id].title), t)

\* C4: the full result list is in non-increasing order of relevance, and a
\* document whose title contains a query token comes before a document whose
\* title does not, when every other query token scores the same for both.
C4_RelevanceOrder ==
    (Searched /\ ~lastSearch.resp.threw) =>
        LET sorted == lastSearch.resp.sorted
            found == {sorted[i].id : i \in DOMAIN sorted}
            tokens == Range(lastSearch.resp.queryTokens)
        IN /\ \A i, j \in DOMAIN sorted :
                i < j => sorted[i].relevance >= sorted[j].relevance
           /\ \A i, j \in DOMAIN lastSearch.resp.results :
                i < j => lastSearch.resp.results[i].relevance
                           >= lastSearch.resp.results[j].relevance
           /\ \A a, b \in found, t \in tokens :
                (/\ InTitle(a, t)
                 /\ ~InTitle(b, t)
                 /\ \A u \in tokens \ {t} :
                      tokenScore(lastSearch.documents[a], u)
                        = tokenScore(lastSearch.documents[b], u))
                => PositionOf(a) < PositionOf(b)

\* C4 witness: a search found a document with the token in its title and one
\* with the token only in its body, the second listed first in the index, and
\* answered them in the other order.
C4_Witness ==
    /\ Searched
    /\ ~lastSearch.resp.threw
    /\ Len(lastSearch.resp.sorted) = 2
    /\ \E t \in Range(lastSearch.resp.queryTokens) :
          /\ InTitle(lastSearch.resp.sorted[1].id, t)
          /\ ~InTitle(lastSearch.resp.sorted[2].id, t)
    /\ lastSearch.resp.candidates[1] = lastSearch.resp.sorted[2].id
    /\ lastSearch.resp.sorted[1].relevance > lastSearch.resp.sorted[2].relevance

\* ------------------------------------------------------------------------
\* Properties of the router
\* ------------------------------------------------------------------------

\* the paths lookup is asked about
ProbePaths == {paramsPath(u) : u \in {u_foo, u_bar, u_searching, u_constructor}}

Listed(p) == {i \in DOMAIN lastRefresh.contents : lastRefresh.contents[i].path = p}

\* C9: after a refreshRoutes that succeeded, lookup(p) finds an entry exactly
\* for the paths of the fetched listing, with that document's id and type.
C9_CacheIsProjection ==
    (lastRefresh # NoRefresh /\ ~lastRefresh.failed) =>
        \A p \in ProbePaths :
            LET found == lookup(lastRefresh.postCache, p)
            IN /\ found.found <=> Listed(p) # {}
               /\ found.found =>
                    \E i \in Listed(p) :
                        /\ found.own
                        /\ found.entry.contentId = lastRefresh.contents[i]._id
                        /\ found.entry.documentType = lastRefresh.contents[i].document_type

\* C10: whenever the frontend answered the request the router made of it, the
\* client gets the frontend's status and body.
C10_StatusRelayed ==
    (lastReply # NoReply /\ lastReply.reply.answer.kind = "answered") =>
        /\ lastReply.reply.status = lastReply.reply.answer.status
        /\ lastReply.reply.body = lastReply.reply.answer.body

\* the last reply came from the admin middleware after the frontend answered
\* with a status in [200, 500)
AdminAnswered ==
    /\ lastReply # NoReply
    /\ lastReply.reply.branch = "admin"
    /\ lastReply.reply.answer.kind = "answered"
    /\ lastReply.reply.answer.status >= 200
    /\ lastReply.reply.answer.status < 500

DiagnosticBodies ==
    {"Error processing admin request", "Error processing search request",
     "Error processing homepage request", "Error processing content request",
     "Service communication error", "Page not found"}

\* C12: when the transport to the frontend failed, the client gets a 5xx
\* status and a short diagnostic body.
C12_UnreachableGives5xx ==
    (lastReply # NoReply /\ lastReply.reply.answer.kind \in {"unreachable", "timeout"}) =>
        /\ lastReply.reply.status >= 500
        /\ lastReply.reply.status < 600
        /\ lastReply.reply.body \in DiagnosticBodies

\* C13: every request the router receives gets a response in the end, even
\* when the frontend never answers.
C13_EveryRequestAnswered == (pending # NoPending) ~> (pending = NoPending)

\* the last reply answered a GET the frontend was asked about, whose path is
\* neither the root nor under the admin or search prefixes
ContentRequest ==
    /\ lastReply # NoReply
    /\ lastReply.req.method = "GET"
    /\ ~startsWith(lastReply.req.url, p_admin)
    /\ ~startsWith(paramsPath(lastReply.req.url), p_search)
    /\ paramsPath(lastReply.req.url) # <<>>

\* C14: a GET of a content path is decided by the route cache: a path that is
\* no key of the cache gives one upstream request, for the not-found page, and
\* status 404; a path that is a key gives a GET of the same path.
C14_RoutedByCache ==
    ContentRequest =>
        IF paramsPath(lastReply.req.url) \in DOMAIN lastReply.cache
        THEN lastReply.reply.sent = get(pathPart(lastReply.req.url))
        ELSE /\ lastReply.reply.sent = get(p_notFound)
             /\ lastReply.reply.status = 404

\* the last reply answered a request under the admin prefix or the search segment
PrefixRequest ==
    /\ lastReply # NoReply
    /\ \/ startsWith(lastReply.req.url, p_admin)
       \/ lastReply.req.method = "GET" /\ startsWith(paramsPath(lastReply.req.url), p_search)

\* route caches with entries whose paths begin with the prefixes
CollidingCaches ==
    {[path \in paths |-> [contentId |-> 1, documentType |-> "guide"]] :
        paths \in {{}, {paramsPath(u_admin), paramsPath(u_searching), p_search}}}

\* C15: a request under the admin prefix or the search segment is answered by
\* the prefix's branch, and the answer is the same whatever the route cache
\* holds.
C15_PrefixBeforeCache ==
    PrefixRequest =>
        /\ lastReply.reply.branch \in {"admin", "search"}
        /\ \A cache \in CollidingCaches :
              handle(lastReply.variant, cache, lastReply.req, lastReply.serializer,
                     lastReply.reply.answer) = lastReply.reply

\* C15 witness: router/index.js answered a GET whose path was a key of its
\* route cache through the search branch.
C15_Witness ==
    /\ PrefixRequest
    /\ lastReply.variant = "index"
    /\ paramsPath(lastReply.req.url) \in DOMAIN lastReply.cache
    /\ lastReply.reply.branch = "search"
    /\ lastReply.reply.sent = get(p_slash_search)

\* the last reply answered a request under the admin prefix
AdminRequest == lastReply # NoReply /\ startsWith(lastReply.req.url, p_admin)

\* C16: a request of any method under the admin prefix is sent to the frontend
\* once, with its method, URL and body and its headers except host, and the
\* frontend's answer is relayed.
C16_AdminForwardedVerbatim ==
    AdminRequest =>
        /\ Len(lastReply.reply.sent) = 1
        /\ LET sent == lastReply.reply.sent[1]
               req == lastReply.req
           IN /\ sent.method = req.method
              /\ sent.url = req.url
              /\ sent.body = req.body
              /\ DOMAIN sent.headers = DOMAIN req.headers
              /\ \A k \in DOMAIN req.headers \ {"host"} : sent.headers[k] = req.headers[k]
              /\ sent.headers["host"] = "frontend:3001"
        /\ lastReply.reply.answer.kind = "answered" =>
              lastReply.reply.status = lastReply.reply.answer.status

\* the last reply answered a form-encoded POST under the admin prefix
AdminFormPost ==
    /\ AdminRequest
    /\ lastReply.req.method = "POST"
    /\ lastReply.req.body.kind = "form"

\* C17: the body forwarded for a form-encoded admin POST is a form that gives
\* every field name the values the client sent, in the same order.
C17_FormFieldsKept ==
    AdminFormPost =>
        /\ Len(lastReply.reply.sent) = 1
        /\ lastReply.reply.sent[1].body.kind = "form"
        /\ \A key \in Range(keysOf(lastReply.req.body.pairs))
                      \cup Range(keysOf(lastReply.reply.sent[1].body.pairs)) :
              valuesOf(lastReply.reply.sent[1].body.pairs, key)
                = valuesOf(lastReply.req.body.pairs, key)

\* C18: a GET whose path starts with the search segment is sent to the
\* frontend's /search with the request's whole query string.
C18_QueryStringKept ==
    (/\ lastReply # NoReply
     /\ lastReply.req.method = "GET"
     /\ ~startsWith(lastReply.req.url, p_admin)
     /\ startsWith(paramsPath(lastReply.req.url), p_search)) =>
        lastReply.reply.sent = get(p_slash_search \o queryString(lastReply.req.url))

\* C20: every request the router handles arrived after its first refreshRoutes
\* had completed.
C20_NoRequestBeforeFirstRefresh ==
    /\ lastReply # NoReply => lastReply.refreshed
    /\ pending # NoPending => pending.refreshed

\* ------------------------------------------------------------------------
\* Properties of the search services' start
\* ------------------------------------------------------------------------

\* C19: a search service answers /search, and has its timers scheduled, only
\* after its initial build attempt has run to its end.
C19_ServesAfterInitialBuild ==
    /\ lastSearch # NoSearch => last # NoPass
    /\ phase = "serving" => last # NoPass
    /\ lastLegacySearch # NoSearch => lastLegacySearch.built
    /\ legacyPhase = "listening" => legacyBuilt

\* ------------------------------------------------------------------------
\* Properties of the search service's inputs and reads
\* ------------------------------------------------------------------------

\* the document types the content store accepts
KnownTypes == {"simple-page", "guide"}

\* the last search had no query, an empty one, or one without tokens
SearchedWithoutTokens ==
    /\ Searched
    /\ (~lastSearch.req.q.present \/ Len(tokenizeText(lastSearch.req.q.value)) = 0)

\* the last search carried a type filter that is no document type
SearchedUnknownType ==
    /\ Searched
    /\ lastSearch.req.type.present
    /\ lastSearch.req.type.value \notin KnownTypes \cup {""}

\* C21: a search without query tokens or with an unknown type filter is
\* answered with a well-formed response that has no results and total 0,
\* never with an error, and the search leaves documents and the token index
\* as they were.
C21_MalformedInputIsValid ==
    /\ [](SearchedWithoutTokens \/ SearchedUnknownType =>
            /\ ~lastSearch.resp.threw
            /\ lastSearch.resp.results = <<>>
            /\ lastSearch.resp.total = 0
            /\ lastSearch.resp.totalPages = 0)
    /\ [][lastSearch' # lastSearch =>
            UNCHANGED <<documents, tokenizedIndex, lastIndexedTime>>]_vars

\* a buildSearchIndex ran to its end without taking its catch branch
BuildSucceeded == last.op = "build" /\ ~last.failed

\* the fetched document with this id, when the fetched list has one
FetchedOf(id) ==
    LET i == CHOOSE j \in DOMAIN last.contents : last.contents[j]._id = id
    IN last.contents[i]

FetchedIds == {last.contents[i]._id : i \in DOMAIN last.contents}

\* C22: after a successful buildSearchIndex, documents has one entry for each
\* document of the fetched list and no other, each entry carries the lower-cased
\* searchable text of the fetched document, a document absent from the list is
\* neither in documents nor under any token, and lastIndexedTime is the time of
\* the build.
C22_FullBuildReplacesIndex ==
    BuildSucceeded =>
        /\ DOMAIN documents = FetchedIds
        /\ \A id \in FetchedIds :
              /\ documents[id].text = toLowerCase(searchableTextOf(FetchedOf(id)))
              /\ documents[id].title = FetchedOf(id).title
              /\ documents[id].updatedAt = FetchedOf(id).updatedAt
        /\ \A id \in Ids \ FetchedIds, t \in DOMAIN tokenizedIndex :
              id \notin Range(tokenizedIndex[t])
        /\ lastIndexedTime = DateAt(last.at)

\* C22 witness: a successful build, run over an index that held an older text
\* of a document, left the document with the text of the fetched list.
C22_Witness ==
    /\ BuildSucceeded
    /\ \E id \in FetchedIds :
          /\ id \in DOMAIN last.preDocuments
          /\ last.preDocuments[id].text # documents[id].text

\* the documents the content store can list: any version of a document,
\* published, updated at any time
ListableContents ==
    UNION {{ContentOf(id, [ver |-> v, state |-> "published", updatedAt |-> t]) :
              v \in VersionsOf(id), t \in 0..MaxTime} : id \in Ids}

\* the index after indexDocument(content) called twice in a row
indexedTwice(docs, idx, content) ==
    LET once == indexDocument(docs, idx, content)
    IN indexDocument(once.documents, once.tokenizedIndex, content)

\* C23: from every index the passes can build, indexDocument called twice in a
\* row with the same document leaves documents and the token index as one call
\* leaves them.
C23_IndexDocumentIdempotent ==
    \A c \in ListableContents :
        LET once == indexDocument(documents, tokenizedIndex, c)
            twice == indexedTwice(documents, tokenizedIndex, c)
        IN /\ twice.documents = once.documents
           /\ twice.tokenizedIndex = once.tokenizedIndex

\* ------------------------------------------------------------------------
\* Properties of the services over time
\* ------------------------------------------------------------------------

\* The route cache's half of C24: the path of a published document is a key
\* of the route cache in the end.
PublishedEventuallyRouted ==
    \A id \in Ids : (store[id].state = "published") ~> (PathOf(id) \in DOMAIN routeCache)

\* every request of the search service to the content store is answered
FetchesAnswered == \A slot \in {"full", "incr"} : []<>(flights[slot] = NoFlight)

\* C24: when every request to the content store is answered, and the hourly
\* build's again and again with the store's listing, a published document is
\* in the search index in the end; and the step that ends a failed pass sends
\* no request of its own (the next attempt is the timers').
C24_PublishedEventuallyIndexed ==
    /\ FetchesAnswered =>
          \A id \in Ids : (store[id].state = "published") ~> (id \in DOMAIN documents)
    /\ [][(last' # last /\ last'.failed) =>
            \A slot \in DOMAIN flights :
               flights'[slot] # NoFlight => flights'[slot] = flights[slot]]_vars

WordRuns(s) ==
    {run \in (1..Len(s)) \X (1..Len(s)) :
        /\ run[1] <= run[2]
        /\ \A i \in run[1]..run[2] : s[i] \in WordChars
        /\ (run[1] = 1 \/ s[run[1] - 1] \notin WordChars)
        /\ (run[2] = Len(s) \/ s[run[2] + 1] \notin WordChars)}

\* the runs longer than one character that start before position i
LongRunsBefore(s, i) == {run \in WordRuns(s) : run[2] > run[1] /\ run[1] < i}

Indicator(b) == IF b THEN 1 ELSE 0

\* the sum of f[1], ..., f[n]
RECURSIVE SumTo(_, _)
SumTo(f, n) == IF n = 0 THEN 0 ELSE f[n] + SumTo(f, n - 1)

\* C27: the relevance of every returned result is the sum, over the query
\* tokens, of 3 when the lower-cased title contains the token, 2 more when the
\* title starts with it, and 1 when the document's text contains it.
C27_RelevanceIsWeightedSum ==
    (Searched /\ ~lastSearch.resp.threw) =>
        \A k \in DOMAIN lastSearch.resp.results :
            LET item == lastSearch.resp.results[k]
                doc == lastSearch.documents[item.id]
                title == toLowerCase(doc.title)
                tokens == lastSearch.resp.queryTokens
                score == [n \in DOMAIN tokens |->
                            3 * Indicator(includes(title, tokens[n]))
                            + 2 * Indicator(includes(title, tokens[n])
                                            /\ startsWith(title, tokens[n]))
                            + Indicator(includes(doc.text, tokens[n]))]
            IN item.relevance = SumTo(score, Len(tokens))

\* C27 witness: a search with two tokens returned a document whose title
\* starts with one token and whose text alone contains the other.
C27_Witness ==
    /\ Searched
    /\ ~lastSearch.resp.threw
    /\ Len(lastSearch.resp.queryTokens) = 2
    /\ \E k \in DOMAIN lastSearch.resp.results :
          LET item == lastSearch.resp.results[k]
              title == toLowerCase(lastSearch.documents[item.id].title)
          IN /\ startsWith(title, lastSearch.resp.queryTokens[1])
             /\ ~includes(title, lastSearch.resp.queryTokens[2])
             /\ item.relevance = 7

\* C28: a tick of the incremental timer that finds lastIndexedTime null sends
\* the request of a full build, and one that finds a time sends the request of
\* the filtered pass; lastIndexedTime leaves null only by a build that did not
\* fail, so the full build is tried again at every tick until one succeeds.
C28_IncrementalDelegatesUntilBuilt ==
    /\ [][(flights.incr = NoFlight /\ flights'.incr # NoFlight) =>
            flights'.incr.fn = IF lastIndexedTime = NoDate THEN "build" ELSE "incr"]_vars
    /\ [][(lastIndexedTime = NoDate /\ lastIndexedTime' # NoDate) =>
            (last'.op = "build" /\ ~last'.failed)]_vars

\* C28 witness: the initial build having failed, a tick of the incremental
\* timer ran a full build that succeeded.
C28_Witness ==
    /\ last.op = "build"
    /\ last.slot = "incr"
    /\ ~last.failed
    /\ last.preTime = NoDate
    /\ lastIndexedTime # NoDate
    /\ DOMAIN documents # {}

\* the relevance the claims give a stored document for a list of tokens
WeightedSum(doc, tokens) ==
    LET title == toLowerCase(doc.title)
        score == [n \in DOMAIN tokens |->
                    3 * Indicator(includes(title, tokens[n]))
                    + 2 * Indicator(includes(title, tokens[n]) /\ startsWith(title, tokens[n]))
                    + Indicator(includes(doc.text, tokens[n]))]
    IN SumTo(score, Len(tokens))

\* a response whose candidates are stored documents with a relevance of at
\* least the number of query tokens
CandidatesScore(docs, resp) ==
    \A k \in DOMAIN resp.candidates :
        /\ resp.candidates[k] \in DOMAIN docs
        /\ WeightedSum(docs[resp.candidates[k]], resp.queryTokens) >= Len(resp.queryTokens)

CandidatesScoreInEveryIndex ==
    \A req \in Requests :
        LET resp == searchHandler(documents, tokenizedIndex, req)
        IN ~resp.threw => CandidatesScore(documents, resp)

\* ------------------------------------------------------------------------
\* Properties of reads between refreshes
\* ------------------------------------------------------------------------

\* the index a search read lists every stored document under the tokens of
\* its text and under no other
ReadIndexComplete ==
    \A id \in Ids, t \in DOMAIN lastSearch.index
                         \cup UNION {Range(tokenizeText(lastSearch.documents[d].text)) :
                                       d \in DOMAIN lastSearch.documents} :
        (t \in DOMAIN lastSearch.index /\ id \in Range(lastSearch.index[t]))
          <=> (id \in DOMAIN lastSearch.documents
               /\ t \in Range(tokenizeText(lastSearch.documents[id].text)))

\* C30: a search that follows a pass reads either the index as it was before
\* the pass (when the pass did not run to its end) or the index the pass built
\* in full (every fetched document of a build stored, every stored document
\* listed under the tokens of its text): never an index cleared and not, or
\* only in part, filled again.
C30_ReadsSeeWholeSnapshots ==
    (Searched /\ lastSearch.pass # NoPass) =>
        IF lastSearch.pass.failed
        THEN /\ lastSearch.documents = lastSearch.pass.preDocuments
             /\ lastSearch.index = lastSearch.pass.preIndex
        ELSE /\ lastSearch.pass.op = "build" =>
                  DOMAIN lastSearch.documents
                     = {lastSearch.pass.contents[i]._id : i \in DOMAIN lastSearch.pass.contents}
             /\ ReadIndexComplete

\* ------------------------------------------------------------------------
\* Properties of overlapping passes and of lastIndexedTime
\* ------------------------------------------------------------------------

\* an incrementalIndexUpdate ran to its end (with or without changed documents)
IncrementalSucceeded == last.op = "incr" /\ last.kind = "ok" /\ ~last.failed

\* the list the last pass fetched has document id in a version at least as
\* new as every version of it the index had held before the pass
FetchedNoOlderThanHeld(id) ==
    \E i \in DOMAIN last.contents :
        last.contents[i]._id = id /\ last.contents[i].updatedAt >= last.held[id]

\* C31: under any interleaving of the two timers' passes the index does not
\* stay regressed: after an incrementalIndexUpdate that ran to its end and
\* whose fetched list had a document in a version no older than any the index
\* had held, the index does not hold an older version of that document than
\* one it held before.
C31_IndexNeverRegresses ==
    IncrementalSucceeded =>
        \A id \in DOMAIN documents :
            FetchedNoOlderThanHeld(id) => documents[id].updatedAt >= last.held[id]

\* C32: after an incrementalIndexUpdate that ran to its end, every document
\* that is published in the list the update fetched is in documents with the
\* text of its fetched version.
C32_FetchedPublishedIsIndexed ==
    IncrementalSucceeded =>
        \A i \in DOMAIN last.contents :
            last.contents[i].state = "published" =>
                /\ last.contents[i]._id \in DOMAIN documents
                /\ documents[last.contents[i]._id].text =
                       toLowerCase(searchableTextOf(last.contents[i]))

\* a pass completes in this step: the answer of its request is handled
PassCompletes == \E slot \in DOMAIN flights : flights[slot] # NoFlight /\ flights'[slot] = NoFlight

\* C33: lastIndexedTime leaves null only in a step that completes a
\* buildSearchIndex that did not fail, and every such step leaves it not null;
\* once not null it stays so and does not decrease; a pass that failed leaves
\* it as it was.
C33_LastIndexedTimeMonotone ==
    /\ [][(lastIndexedTime = NoDate /\ lastIndexedTime' # NoDate) =>
              (PassCompletes /\ last'.op = "build" /\ ~last'.failed)]_vars
    /\ [][(PassCompletes /\ last'.op = "build" /\ ~last'.failed) =>
              lastIndexedTime' # NoDate]_vars
    /\ [][lastIndexedTime # NoDate =>
              (lastIndexedTime' # NoDate /\ lastIndexedTime'.time >= lastIndexedTime.time)]_vars
    /\ [][(PassCompletes /\ last'.failed) => lastIndexedTime' = lastIndexedTime]_vars

\* C33 witness: with lastIndexedTime set by an earlier build, a later
\* incrementalIndexUpdate threw after it had called indexDocument, and
\* lastIndexedTime is what it was before, earlier than the time the pass ran at.
C33_Witness ==
    /\ last.op = "incr"
    /\ last.failed
    /\ last.called # <<>>
    /\ lastIndexedTime # NoDate
    /\ lastIndexedTime = last.preTime
    /\ lastIndexedTime.time < last.at

====
